---- MODULE Spec2Model ----
(***************************************************************************)
(* Model of the deterministic data pipeline of f1_predictor (v2):          *)
(*   postprocessing/positions.py  predicted gap -> race position           *)
(*   postprocessing/points.py     position -> championship points          *)
(*   postprocessing/standings.py  points -> driver / constructor tables    *)
(*   features/splits.py           gap to the winner, lapped cars, backfill *)
(*   features/weather.py          weather text cleaning, range averaging   *)
(*   features/qualifying.py       lap time parsing, best / worst / mean    *)
(*   features/pipeline.py         filling of missing values, qualifying    *)
(*                                aggregates, train / test split           *)
(*   features/age.py              age at a race in days                    *)
(* and of its stateful parts:                                              *)
(*   models/xgboost_model.py      F1XGBoostModel (fit, predict, save, ...) *)
(*   models/registry.py           ModelRegistry (versions, active version) *)
(*   api/app.py, api/routers.py   start-up and model activation            *)
(* A pure operation is a function of its argument `df`; its specification  *)
(* draws the argument from a bounded set and its actions apply the         *)
(* operation, leaving the result in `out` and the operation's name in      *)
(* `pc`.  For an object, `df` holds the object's state, `out` the outcome  *)
(* of the last call and `pc` the call.                                     *)
(* Times are held in milliseconds (thousandths of the code's seconds) and  *)
(* predicted gaps in tenths, so that all arithmetic is on integers.        *)
(***************************************************************************)
EXTENDS Integers, Sequences, FiniteSets, TLC

VARIABLES df, out, pc

vars == <<df, out, pc>>

(***************************************************************************)
(* Optional values: None is pandas' NaN / Python's None.                   *)
(***************************************************************************)
None == <<>>

Some(v) == <<v>>

IsNull(x) == x = <<>>

Val(x) == x[1]

(* Tables of 1..n rows drawn from a set of rows. *)
Tables(rows, n) == UNION {[1..k -> rows] : k \in 1..n}

(* The row labels of a table, in row order. *)
Index(t) == [i \in 1..Len(t) |-> i]

RECURSIVE Filter(_, _)
Filter(s, keep) ==
    IF s = <<>> THEN <<>>
    ELSE IF Head(s) \in keep THEN <<Head(s)>> \o Filter(Tail(s), keep)
    ELSE Filter(Tail(s), keep)

Range(s) == {s[i] : i \in DOMAIN s}

(***************************************************************************)
(* postprocessing/positions.py                                             *)
(***************************************************************************)
MaxRows == 4

PosKeys == {<<2023, 1>>, <<2023, 2>>, <<2024, 1>>}

PosPreds == {None, Some(0), Some(55), Some(98)}

PosRows == {[season |-> k[1], round |-> k[2], pred |-> p] : k \in PosKeys, p \in PosPreds}

(* df.groupby(["season", "round"]): the labels of the rows of one group, in row order. *)
groupby_season_round(t, key) ==
    Filter(Index(t), {i \in DOMAIN t : <<t[i].season, t[i].round>> = key})

group_keys(t) == {<<t[i].season, t[i].round>> : i \in DOMAIN t}

(* Ascending order of the labels by value (the sort inside Series.rank). *)
RECURSIVE InsertAsc(_, _, _)
InsertAsc(s, i, val) ==
    IF s = <<>> THEN <<i>>
    ELSE IF val[i] < val[Head(s)] THEN <<i>> \o s
    ELSE <<Head(s)>> \o InsertAsc(Tail(s), i, val)

RECURSIVE ArgSortAsc(_, _)
ArgSortAsc(labels, val) ==
    IF labels = <<>> THEN <<>>
    ELSE InsertAsc(ArgSortAsc(SubSeq(labels, 1, Len(labels) - 1), val),
                   labels[Len(labels)], val)

(* Walk of the sorted labels: a label equal to its predecessor takes the   *)
(* predecessor's rank, any other its 1-based place (method="min").         *)
RECURSIVE RankWalk(_, _, _, _)
RankWalk(sorted, val, p, acc) ==
    IF p > Len(sorted) THEN acc
    ELSE LET r == IF p > 1 /\ val[sorted[p]] = val[sorted[p - 1]]
                  THEN Val(acc[sorted[p - 1]])
                  ELSE p
         IN RankWalk(sorted, val, p + 1, [acc EXCEPT ![sorted[p]] = Some(r)])

(* Mutant: method="dense" (the next distinct value takes the next rank). *)
rank_dense(t, labels) ==
    [i \in Range(labels) |->
        IF IsNull(t[i].pred) THEN None
        ELSE Some(1 + Cardinality({Val(t[j].pred) : j \in
                 {j \in Range(labels) : ~IsNull(t[j].pred) /\ Val(t[j].pred) < Val(t[i].pred)}}))]

(* Mutant: method="max" (tied rows share the highest rank). *)
rank_max(t, labels) ==
    [i \in Range(labels) |->
        IF IsNull(t[i].pred) THEN None
        ELSE Some(Cardinality(
                 {j \in Range(labels) : ~IsNull(t[j].pred) /\ Val(t[j].pred) <= Val(t[i].pred)}))]

(* Series.rank(method="min") of one group: NaN keeps NaN (na_option="keep"). *)
rank_min(t, labels) ==
    LET valid == Filter(labels, {i \in DOMAIN t : ~IsNull(t[i].pred)})
        val == [i \in DOMAIN t |-> IF IsNull(t[i].pred) THEN 0 ELSE Val(t[i].pred)]
    IN RankWalk(ArgSortAsc(valid, val), val, 1, [i \in Range(labels) |-> None])

(* .astype(int) raises on a NaN rank. *)
astype_int_raises(ranks) == \E i \in DOMAIN ranks : IsNull(ranks[i])

(* Mutant: NaN ranks are filled with 0 before the cast instead of raising. *)
rank_within_group_fillna(t, labels) ==
    LET ranks == rank_min(t, labels)
    IN [raised |-> FALSE,
        value |-> [i \in Range(labels) |-> IF IsNull(ranks[i]) THEN 0 ELSE Val(ranks[i])]]

(* rank_within_group applied to one group: [raised, value]. *)
rank_within_group(t, labels) ==
    LET ranks == rank_min(t, labels)
    IN IF astype_int_raises(ranks)
       THEN [raised |-> TRUE, value |-> <<>>]
       ELSE [raised |-> FALSE, value |-> [i \in Range(labels) |-> Val(ranks[i])]]

(* Mutant: a group whose ranking raises is left without positions and the  *)
(* other groups are ranked.                                                *)
predictions_to_positions_per_group(t) ==
    LET res == [k \in group_keys(t) |-> rank_within_group(t, groupby_season_round(t, k))]
    IN [raised |-> FALSE,
        value |-> [i \in DOMAIN t |->
                     IF res[<<t[i].season, t[i].round>>].raised THEN 0
                     ELSE res[<<t[i].season, t[i].round>>].value[i]]]

(* groupby(...).apply(rank_within_group): the exception of any group ends  *)
(* the call; otherwise the result is the Series labelled by the rows.      *)
predictions_to_positions(t) ==
    LET res == [k \in group_keys(t) |-> rank_within_group(t, groupby_season_round(t, k))]
    IN IF \E k \in group_keys(t) : res[k].raised
       THEN [raised |-> TRUE, value |-> <<>>]
       ELSE [raised |-> FALSE,
             value |-> [i \in DOMAIN t |-> res[<<t[i].season, t[i].round>>].value[i]]]

InitPositions ==
    /\ df \in Tables(PosRows, MaxRows)
    /\ out = None
    /\ pc = "input"

PredictionsToPositions ==
    /\ pc = "input"
    /\ out' = predictions_to_positions(df)
    /\ pc' = "predictions_to_positions"
    /\ UNCHANGED df

NextPositions == PredictionsToPositions

SpecPositions == InitPositions /\ [][NextPositions]_vars

Ranked == pc = "predictions_to_positions" /\ ~out.raised

SameRace(i, j) == df[i].season = df[j].season /\ df[i].round = df[j].round

RaceOf(i) == {j \in DOMAIN df : SameRace(i, j)}

(* C1: every row's position is 1 + the number of rows of its own          *)
(* (season, round) group with a strictly smaller predicted gap: tied rows  *)
(* share the lowest rank, the next distinct gap skips the tied positions,  *)
(* and rows of other groups do not count.                                  *)
C1_CompetitionRanking ==
    Ranked =>
        \A i \in DOMAIN df :
            out.value[i] =
                1 + Cardinality({j \in RaceOf(i) : Val(df[j].pred) < Val(df[i].pred)})

(* The spec's example: gaps [0.0, 5.5, 5.5, 9.8] of one race give [1, 2, 2, 4]. *)
C1_Witness ==
    /\ Ranked
    /\ Len(df) = 4
    /\ \A i \in DOMAIN df : SameRace(1, i)
    /\ [i \in DOMAIN df |-> df[i].pred] = <<Some(0), Some(55), Some(55), Some(98)>>
    /\ out.value = <<1, 2, 2, 4>>

(* C2: in every group of n rows the smallest assigned position is 1 and   *)
(* no assigned position exceeds n.                                         *)
C2_PositionsWithinGroupSize ==
    Ranked =>
        \A i \in DOMAIN df :
            /\ \E j \in RaceOf(i) : out.value[j] = 1
            /\ out.value[i] >= 1
            /\ out.value[i] <= Cardinality(RaceOf(i))

(* A race whose two best rows tie and whose last row holds position n,     *)
(* beside a second race.                                                   *)
C2_Witness ==
    /\ Ranked
    /\ \E i, j, k \in DOMAIN df :
          /\ i # j /\ SameRace(i, j) /\ SameRace(i, k)
          /\ out.value[i] = 1 /\ out.value[j] = 1
          /\ out.value[k] = Cardinality(RaceOf(k)) /\ out.value[k] = 3
    /\ \E i \in DOMAIN df : ~SameRace(1, i)

(* C7: when a (season, round) group holds no non-null predicted gap the    *)
(* call fails with an error; its rows get no default position.             *)
C7_AllNullGroupRaises ==
    pc = "predictions_to_positions" =>
        ((\E i \in DOMAIN df : \A j \in RaceOf(i) : IsNull(df[j].pred)) => out.raised)

(* A race of two rows without any gap beside a race whose gaps are all known. *)
C7_Witness ==
    /\ pc = "predictions_to_positions"
    /\ out.raised
    /\ \E i \in DOMAIN df :
          /\ Cardinality(RaceOf(i)) = 2
          /\ \A j \in RaceOf(i) : IsNull(df[j].pred)
    /\ \E i \in DOMAIN df : \A j \in RaceOf(i) : ~IsNull(df[j].pred)

(***************************************************************************)
(* core/constants.py, postprocessing/points.py                             *)
(***************************************************************************)
MaxPointRows == 2

PointPositions == -2 .. 13

POINTS_SYSTEM == <<25, 18, 15, 12, 10, 8, 6, 4, 2, 1>>

(* Mutant: positions past the table take the table's last entry. *)
position_to_points_clamped(position) ==
    IF position \in DOMAIN POINTS_SYSTEM THEN POINTS_SYSTEM[position]
    ELSE IF position > Len(POINTS_SYSTEM) THEN POINTS_SYSTEM[Len(POINTS_SYSTEM)]
    ELSE 0

(* POINTS_SYSTEM.get(int(position), 0); int() of a Python int is that int. *)
position_to_points(position) ==
    IF position \in DOMAIN POINTS_SYSTEM THEN POINTS_SYSTEM[position] ELSE 0

(* df[position_column].apply(position_to_points) *)
calculate_race_points(t) == [i \in DOMAIN t |-> position_to_points(t[i].pred_position)]

InitPoints ==
    /\ df \in Tables({[pred_position |-> p] : p \in PointPositions}, MaxPointRows)
    /\ out = None
    /\ pc = "input"

CalculateRacePoints ==
    /\ pc = "input"
    /\ out' = calculate_race_points(df)
    /\ pc' = "calculate_race_points"
    /\ UNCHANGED df

NextPoints == CalculateRacePoints

SpecPoints == InitPoints /\ [][NextPoints]_vars

F1Points(p) ==
    CASE p = 1 -> 25 [] p = 2 -> 18 [] p = 3 -> 15 [] p = 4 -> 12 [] p = 5 -> 10
      [] p = 6 -> 8 [] p = 7 -> 6 [] p = 8 -> 4 [] p = 9 -> 2 [] p = 10 -> 1
      [] OTHER -> 0

(* C6: positions 1..10 give 25, 18, 15, 12, 10, 8, 6, 4, 2, 1 and every   *)
(* other integer position (0, negative, 11 and above) gives 0.             *)
C6_PointsTable ==
    pc = "calculate_race_points" =>
        /\ DOMAIN out = DOMAIN df
        /\ \A i \in DOMAIN df : out[i] = F1Points(df[i].pred_position)

(* A row at position 11 (as a tie can push a row past rank 10) beside a    *)
(* row at position 10.                                                     *)
C6_Witness ==
    /\ pc = "calculate_race_points"
    /\ Len(df) = 2
    /\ df[1].pred_position = 10 /\ out[1] = 1
    /\ df[2].pred_position = 11 /\ out[2] = 0

(***************************************************************************)
(* postprocessing/standings.py                                             *)
(***************************************************************************)
MaxStandingRows == 4

(* Identities in ascending (lexical) order, the order groupby yields its groups in. *)
Drivers == <<"A", "B", "C">>

Constructors == <<"X", "Y">>

Team == [d \in Range(Drivers) |-> IF d = "C" THEN "Y" ELSE "X"]

StandingPositions == {1, 3, 4, 11}

StandingRows ==
    {[name |-> d, constructor |-> Team[d], pred_position |-> p] :
        d \in Range(Drivers), p \in StandingPositions}

Result(d, p) == [name |-> d, constructor |-> Team[d], pred_position |-> p]

(* Three races in which A scores 25, 18, 25 and B scores 18, 25, 18. *)
SeasonOfThreeRaces ==
    <<Result("A", 1), Result("B", 2), Result("B", 1), Result("A", 2),
      Result("A", 1), Result("B", 2)>>

RECURSIVE SumSeq(_)
SumSeq(s) == IF s = <<>> THEN 0 ELSE Head(s) + SumSeq(Tail(s))

CountIf(s, keep) == Cardinality({i \in DOMAIN s : s[i] \in keep})

(* df["points"] = df[position_column].apply(position_to_points) *)
with_points(t) ==
    [i \in DOMAIN t |-> [name |-> t[i].name, constructor |-> t[i].constructor,
                         pred_position |-> t[i].pred_position,
                         points |-> position_to_points(t[i].pred_position)]]

(* Mutant: a podium counted only above 15 points. *)
agg_podium_above(t, col, key) ==
    LET labels == Filter(Index(t), {i \in DOMAIN t : t[i][col] = key})
        x == [n \in DOMAIN labels |-> t[labels[n]].points]
    IN (col :> key) @@
       [total_points |-> SumSeq(x), races |-> Len(x),
        wins |-> CountIf(x, {25}), podiums |-> CountIf(x, {v \in Range(x) : v > 15}),
        points_finishes |-> CountIf(x, {v \in Range(x) : v > 0})]

(* .agg(total_points=sum, races=count, wins=(x == 25).sum(),               *)
(*      podiums=(x >= 15).sum(), points_finishes=(x > 0).sum())            *)
(* over x, the points of one group's rows.                                 *)
agg(t, col, key) ==
    LET labels == Filter(Index(t), {i \in DOMAIN t : t[i][col] = key})
        x == [n \in DOMAIN labels |-> t[labels[n]].points]
    IN (col :> key) @@
       [total_points |-> SumSeq(x), races |-> Len(x),
        wins |-> CountIf(x, {25}), podiums |-> CountIf(x, {v \in Range(x) : v >= 15}),
        points_finishes |-> CountIf(x, {v \in Range(x) : v > 0})]

(* df.groupby(col).agg(...).reset_index(): one row per key, keys ascending. *)
groupby_agg(t, col, order) ==
    LET keys == Filter(order, {t[i][col] : i \in DOMAIN t})
    IN [n \in DOMAIN keys |-> agg(t, col, keys[n])]

Permutations1(n) == {f \in [1..n -> 1..n] : \A i, j \in 1..n : f[i] = f[j] => i = j}

(* Mutant: ascending=False left out. *)
sort_values_ascending(tbl) ==
    {[n \in DOMAIN tbl |-> tbl[f[n]]] : f \in
        {f \in Permutations1(Len(tbl)) :
            \A i, j \in DOMAIN tbl : i < j => tbl[f[i]].total_points <= tbl[f[j]].total_points}}

(* standings.sort_values("total_points", ascending=False): the default     *)
(* kind is "quicksort", which is not stable, so every arrangement that is  *)
(* descending by total_points is a possible outcome.                       *)
sort_values(tbl) ==
    {[n \in DOMAIN tbl |-> tbl[f[n]]] : f \in
        {f \in Permutations1(Len(tbl)) :
            \A i, j \in DOMAIN tbl : i < j => tbl[f[i]].total_points >= tbl[f[j]].total_points}}

(* standings["position"] = range(1, len(standings) + 1); column order;     *)
(* reset_index(drop=True).                                                 *)
with_position(tbl) == [n \in DOMAIN tbl |-> [position |-> n] @@ tbl[n]]

calculate_driver_standings(t) ==
    {with_position(s) : s \in sort_values(groupby_agg(with_points(t), "name", Drivers))}

calculate_constructor_standings(t) ==
    {with_position(s) :
        s \in sort_values(groupby_agg(with_points(t), "constructor", Constructors))}

InitStandings ==
    /\ df \in Tables(StandingRows, MaxStandingRows) \cup {SeasonOfThreeRaces}
    /\ out = None
    /\ pc = "input"

CalculateDriverStandings ==
    /\ pc = "input"
    /\ out' \in calculate_driver_standings(df)
    /\ pc' = "calculate_driver_standings"
    /\ UNCHANGED df

CalculateConstructorStandings ==
    /\ pc = "input"
    /\ out' \in calculate_constructor_standings(df)
    /\ pc' = "calculate_constructor_standings"
    /\ UNCHANGED df

NextStandings == CalculateDriverStandings \/ CalculateConstructorStandings

SpecStandings == InitStandings /\ [][NextStandings]_vars

StandingsDone == pc \in {"calculate_driver_standings", "calculate_constructor_standings"}

(* The identity column of the table in `out`, and its keys in ascending order. *)
KeyColumn == IF pc = "calculate_driver_standings" THEN "name" ELSE "constructor"

KeyOrder == IF pc = "calculate_driver_standings" THEN Drivers ELSE Constructors

Entities == {df[i][KeyColumn] : i \in DOMAIN df}

RowsOf(e) == {i \in DOMAIN df : df[i][KeyColumn] = e}

RowsScoring(e, pts) == {i \in RowsOf(e) : F1Points(df[i].pred_position) \in pts}

TotalOf(e) ==
    25 * Cardinality(RowsScoring(e, {25})) + 18 * Cardinality(RowsScoring(e, {18}))
    + 15 * Cardinality(RowsScoring(e, {15})) + 12 * Cardinality(RowsScoring(e, {12}))
    + 10 * Cardinality(RowsScoring(e, {10})) + 8 * Cardinality(RowsScoring(e, {8}))
    + 6 * Cardinality(RowsScoring(e, {6})) + 4 * Cardinality(RowsScoring(e, {4}))
    + 2 * Cardinality(RowsScoring(e, {2})) + Cardinality(RowsScoring(e, {1}))

(* C3: the positions of a standings table of N entities are exactly 1..N,  *)
(* each used once, and an entity with strictly more total points has a     *)
(* strictly smaller position.                                              *)
C3_DensePositionsByPoints ==
    StandingsDone =>
        /\ Len(out) = Cardinality(Entities)
        /\ \A n \in DOMAIN out : out[n].position = n
        /\ \A a, b \in DOMAIN out :
              out[a].total_points > out[b].total_points => out[a].position < out[b].position

(* The spec's season: A with 25+18+25 = 68 is placed ahead of B with 18+25+18 = 61. *)
C3_Witness ==
    /\ pc = "calculate_driver_standings"
    /\ df = SeasonOfThreeRaces
    /\ Len(out) = 2
    /\ out[1].name = "A" /\ out[1].total_points = 68 /\ out[1].position = 1
    /\ out[2].name = "B" /\ out[2].total_points = 61 /\ out[2].position = 2

(* C4: every distinct driver (constructor) of the input has exactly one    *)
(* entry; its total_points is the sum of the points of its rows, races the *)
(* number of its rows, wins the rows with 25 points, podiums the rows with *)
(* at least 15, points_finishes the rows with more than 0.                 *)
C4_AggregatesPerEntity ==
    StandingsDone =>
        /\ \A n \in DOMAIN out : out[n][KeyColumn] \in Entities
        /\ \A e \in Entities :
              /\ Cardinality({n \in DOMAIN out : out[n][KeyColumn] = e}) = 1
              /\ \A n \in DOMAIN out :
                    out[n][KeyColumn] = e =>
                        /\ out[n].total_points = TotalOf(e)
                        /\ out[n].races = Cardinality(RowsOf(e))
                        /\ out[n].wins = Cardinality(RowsScoring(e, {25}))
                        /\ out[n].podiums = Cardinality(RowsScoring(e, {25, 18, 15}))
                        /\ out[n].points_finishes =
                              Cardinality(RowsScoring(e, {25, 18, 15, 12, 10, 8, 6, 4, 2, 1}))

(* A constructor with a win, a third place, a fourth place and a finish    *)
(* outside the points.                                                     *)
C4_Witness ==
    /\ pc = "calculate_constructor_standings"
    /\ \E n \in DOMAIN out :
          /\ out[n].constructor = "X"
          /\ out[n].races = 4 /\ out[n].wins = 1 /\ out[n].podiums = 2
          /\ out[n].points_finishes = 3 /\ out[n].total_points = 52
    /\ \E i \in DOMAIN df : df[i].name = "A"
    /\ \E i \in DOMAIN df : df[i].name = "B"

KeyRank(e) == CHOOSE n \in DOMAIN KeyOrder : KeyOrder[n] = e

(* C5: entities with equal total points keep the order in which the        *)
(* grouping produced them (ascending identity key).                        *)
C5_TiesKeepGroupOrder ==
    StandingsDone =>
        \A a, b \in DOMAIN out :
            (/\ out[a].total_points = out[b].total_points
             /\ KeyRank(out[a][KeyColumn]) < KeyRank(out[b][KeyColumn]))
            => out[a].position < out[b].position

(***************************************************************************)
(* features/splits.py                                                      *)
(* A status is the sequence of its characters.  Seconds are held as        *)
(* thousandths, so time_millis / 1000 seconds is time_millis thousandths   *)
(* and the penalty of 2.0 seconds per position is 2 * MillisPerSecond.     *)
(***************************************************************************)
MaxSplitRows == 2

MaxFillRows == 3

MillisPerSecond == 1000

SplitKeys == {<<2023, 1>>, <<2023, 2>>}

FinishPositions == {None, Some(1), Some(2)}

TimeMillis == {None, Some(5000000), Some(5010000)}

Finished == <<"F", "i", "n", "i", "s", "h", "e", "d">>

Plus1Lap == <<"+", "1", " ", "L", "a", "p">>

Plus2Laps == <<"+", "2", " ", "L", "a", "p", "s">>

ZeroLaps == <<"0", " ", "L", "a", "p", "s">>

Lapped == <<"L", "a", "p", "p", "e", "d">>

Statuses == {Finished, Plus1Lap, Plus2Laps, ZeroLaps, Lapped}

SplitRowsOf(statuses) ==
    {[season |-> k[1], round |-> k[2], finish_position |-> p, time_millis |-> t,
      status |-> st] :
        k \in SplitKeys, p \in FinishPositions, t \in TimeMillis, st \in statuses}

DigitValue ==
    [c \in {"0", "1", "2", "3", "4", "5", "6", "7", "8", "9"} |->
        CASE c = "0" -> 0 [] c = "1" -> 1 [] c = "2" -> 2 [] c = "3" -> 3 [] c = "4" -> 4
          [] c = "5" -> 5 [] c = "6" -> 6 [] c = "7" -> 7 [] c = "8" -> 8 [] c = "9" -> 9]

(* "Lap" in str(status) *)
ContainsLap(st) ==
    \E i \in 1 .. Len(st) - 2 : st[i] = "L" /\ st[i + 1] = "a" /\ st[i + 2] = "p"

(* str(status).replace("+", "") *)
RemovePlus(st) == Filter(st, Range(st) \ {"+"})

RECURSIVE SkipSpaces(_)
SkipSpaces(st) ==
    IF st # <<>> /\ Head(st) = " " THEN SkipSpaces(Tail(st)) ELSE st

RECURSIVE TakeToken(_)
TakeToken(st) ==
    IF st = <<>> \/ Head(st) = " " THEN <<>> ELSE <<Head(st)>> \o TakeToken(Tail(st))

(* .split(): parts[0], or the empty sequence when there are no parts. *)
FirstPart(st) == TakeToken(SkipSpaces(st))

(* parts and parts[0].isdigit() *)
IsDigit(tok) == tok # <<>> /\ \A i \in DOMAIN tok : tok[i] \in DOMAIN DigitValue

(* int(parts[0]) *)
RECURSIVE ToInt(_)
ToInt(tok) ==
    IF tok = <<>> THEN 0
    ELSE 10 * ToInt(SubSeq(tok, 1, Len(tok) - 1)) + DigitValue[tok[Len(tok)]]

Max(a, b) == IF a >= b THEN a ELSE b

(* Mutant: the split is multiplied by laps_down itself, without max(., 1). *)
compute_filled_split_no_max(split, status, position) ==
    IF IsNull(split)
    THEN IF ~IsNull(position) THEN Some(Val(position) * 2 * MillisPerSecond) ELSE None
    ELSE IF ContainsLap(status) /\ IsDigit(FirstPart(RemovePlus(status)))
         THEN Some(Val(split) * ToInt(FirstPart(RemovePlus(status))))
         ELSE split

(* _compute_filled_split(split, status, position) *)
compute_filled_split(split, status, position) ==
    IF IsNull(split)
    THEN IF ~IsNull(position) THEN Some(Val(position) * 2 * MillisPerSecond) ELSE None
    ELSE IF status # <<>> /\ ContainsLap(status) /\ IsDigit(FirstPart(RemovePlus(status)))
         THEN Some(Val(split) * Max(ToInt(FirstPart(RemovePlus(status))), 1))
         ELSE split

(* Mutant: the first row with finish_position 1 of the whole table. *)
winner_time_of_table(t, labels) ==
    LET first == Filter(Index(t), {i \in DOMAIN t : t[i].finish_position = Some(1)})
    IN IF Len(first) > 0 THEN t[Head(first)].time_seconds ELSE None

(* The transform's lambda on one group: x[finish_position == 1].iloc[0]    *)
(* when the selection is not empty, else NaN.                              *)
winner_time(t, labels) ==
    LET first == Filter(labels, {i \in DOMAIN t : t[i].finish_position = Some(1)})
    IN IF Len(first) > 0 THEN t[Head(first)].time_seconds ELSE None

(* x.ffill(): a null takes the last non-null value before it. *)
RECURSIVE ffill(_, _)
ffill(x, last) ==
    IF x = <<>> THEN <<>>
    ELSE IF IsNull(Head(x)) THEN <<last>> \o ffill(Tail(x), last)
    ELSE <<Head(x)>> \o ffill(Tail(x), Head(x))

(* x.bfill(): a null takes the first non-null value after it. *)
RECURSIVE bfill(_)
bfill(x) ==
    IF x = <<>> THEN <<>>
    ELSE LET rest == bfill(Tail(x))
         IN IF IsNull(Head(x)) /\ rest # <<>> THEN <<Head(rest)>> \o rest
            ELSE <<Head(x)>> \o rest

(* Mutant: forward fill only. *)
fill_forward_only(x) == ffill(x, None)

(* Mutant: backward fill first, then forward fill. *)
bfill_ffill(x) == ffill(bfill(x), None)

(* lambda x: x.ffill().bfill() *)
ffill_bfill(x) == bfill(ffill(x, None))

(* The place of a label in the sequence of its group's labels. *)
PlaceIn(labels, i) == CHOOSE n \in DOMAIN labels : labels[n] = i

split_groupby(t, i) ==
    Filter(Index(t), {j \in DOMAIN t : t[j].season = t[i].season /\ t[j].round = t[i].round})

Minus(a, b) == IF IsNull(a) \/ IsNull(b) THEN None ELSE Some(Val(a) - Val(b))

(* calculate_split_times(df): the columns are added one after the other. *)
with_time_seconds(t) ==
    [i \in DOMAIN t |-> [time_seconds |-> t[i].time_millis] @@ t[i]]

with_winner_time(t) ==
    [i \in DOMAIN t |-> [winner_time |-> winner_time(t, split_groupby(t, i))] @@ t[i]]

with_split_times(t) ==
    [i \in DOMAIN t |->
        [split_times |-> Minus(t[i].time_seconds, t[i].winner_time)] @@ t[i]]

with_filled_splits(t) ==
    [i \in DOMAIN t |->
        [filled_splits |->
            compute_filled_split(t[i].split_times, t[i].status, t[i].finish_position)]
        @@ t[i]]

with_group_fill(t) ==
    [i \in DOMAIN t |->
        LET labels == split_groupby(t, i)
            x == [n \in DOMAIN labels |-> t[labels[n]].filled_splits]
        IN [t[i] EXCEPT !.filled_splits = ffill_bfill(x)[PlaceIn(labels, i)]]]

calculate_split_times(t) ==
    with_group_fill(with_filled_splits(with_split_times(with_winner_time(
        with_time_seconds(t)))))

InitSplits ==
    /\ df \in Tables(SplitRowsOf(Statuses), MaxSplitRows)
                \cup Tables(SplitRowsOf({Finished}), MaxFillRows)
    /\ out = None
    /\ pc = "input"

CalculateSplitTimes ==
    /\ pc = "input"
    /\ out' = calculate_split_times(df)
    /\ pc' = "calculate_split_times"
    /\ UNCHANGED df

NextSplits == CalculateSplitTimes

SpecSplits == InitSplits /\ [][NextSplits]_vars

SplitsDone == pc = "calculate_split_times"

SameGroup(i, j) == df[i].season = df[j].season /\ df[i].round = df[j].round

GroupOf(i) == {j \in DOMAIN df : SameGroup(i, j)}

(* The group's winner: its row with finish_position 1 (the first, should   *)
(* the input hold several).                                                *)
Winners(i) == {j \in GroupOf(i) : df[j].finish_position = Some(1)}

WinnerRow(i) == CHOOSE j \in Winners(i) : \A k \in Winners(i) : j <= k

WinnerTimeOf(i) == IF Winners(i) = {} THEN None ELSE df[WinnerRow(i)].time_millis

(* C8: filled_splits is non-null for every row of a group that has a row   *)
(* with a known finish position or a non-null split time, and a row's      *)
(* filled_splits is null only if its group has no valid winner time.       *)
C8_FilledSplitNonNull ==
    SplitsDone =>
        \A i \in DOMAIN out :
            /\ (\E j \in GroupOf(i) :
                    ~IsNull(out[j].finish_position) \/ ~IsNull(out[j].split_times))
               => ~IsNull(out[i].filled_splits)
            /\ IsNull(out[i].filled_splits) => IsNull(WinnerTimeOf(i))

(* A group whose only finisher is its last row: the rows before it are     *)
(* filled backwards; beside it a group left without any value.             *)
C8_Witness ==
    /\ SplitsDone
    /\ Len(df) = 3
    /\ SameGroup(1, 2) /\ ~SameGroup(1, 3)
    /\ IsNull(df[1].finish_position) /\ IsNull(df[1].time_millis)
    /\ df[2].finish_position = Some(2)
    /\ out[1].filled_splits = Some(4000) /\ out[2].filled_splits = Some(4000)
    /\ IsNull(out[3].filled_splits)

LapsDownOf(st) ==
    CASE st = Plus1Lap -> Some(1)
      [] st = Plus2Laps -> Some(2)
      [] st = ZeroLaps -> Some(0)
      [] OTHER -> None

ExpectedFilledSplit(split, st, position) ==
    IF ~IsNull(split)
    THEN IF ~IsNull(LapsDownOf(st))
         THEN Some(Val(split) * (IF Val(LapsDownOf(st)) > 1 THEN Val(LapsDownOf(st)) ELSE 1))
         ELSE split
    ELSE IF ~IsNull(position) THEN Some(2000 * Val(position)) ELSE None

(* C9: before backfill, a row with a split time gets split x max(lapsDown, *)
(* 1) when its status contains "Lap" and starts, after '+' is stripped,    *)
(* with the integer lapsDown, and the split unchanged otherwise; a row     *)
(* without a split time gets finish_position x 2.0 s, or null when the     *)
(* position is unknown.  Backfill keeps every value that is not null.      *)
C9_FilledSplitPerRow ==
    SplitsDone =>
        \A i \in DOMAIN out :
            LET want == ExpectedFilledSplit(out[i].split_times, out[i].status,
                                            out[i].finish_position)
            IN /\ compute_filled_split(out[i].split_times, out[i].status,
                                       out[i].finish_position) = want
               /\ ~IsNull(want) => out[i].filled_splits = want

(* The spec's scenario: a winner and a "+1 Lap" row 10 s behind keep 10 s. *)
C9_Witness ==
    /\ SplitsDone
    /\ Len(df) = 2
    /\ SameGroup(1, 2)
    /\ df[1].finish_position = Some(1) /\ df[1].time_millis = Some(5000000)
    /\ df[2].status = Plus1Lap /\ out[2].split_times = Some(10000)
    /\ out[2].filled_splits = Some(10000)

(* C10: winner_time is the time of the group's row with finish_position 1  *)
(* (null without such a row or without its time), split_times is           *)
(* time - winner_time where both are known and null otherwise, the         *)
(* winner's own split is 0, and no time comes from another group.          *)
C10_SplitIsGapToGroupWinner ==
    SplitsDone =>
        \A i \in DOMAIN out :
            /\ out[i].winner_time = WinnerTimeOf(i)
            /\ out[i].split_times =
                  IF IsNull(df[i].time_millis) \/ IsNull(WinnerTimeOf(i)) THEN None
                  ELSE Some(Val(df[i].time_millis) - Val(WinnerTimeOf(i)))
            /\ (Winners(i) # {} /\ i = WinnerRow(i) /\ ~IsNull(df[i].time_millis))
               => out[i].split_times = Some(0)

(* Two groups with a winner each, at different times: the first group's    *)
(* second row is 10 s behind its own winner.                               *)
C10_Witness ==
    /\ SplitsDone
    /\ Len(df) = 3
    /\ SameGroup(1, 2) /\ ~SameGroup(1, 3)
    /\ df[1].finish_position = Some(1) /\ df[1].time_millis = Some(5000000)
    /\ df[2].finish_position = Some(2) /\ df[2].time_millis = Some(5010000)
    /\ df[3].finish_position = Some(1) /\ df[3].time_millis = Some(5010000)
    /\ out[1].split_times = Some(0) /\ out[2].split_times = Some(10000)
    /\ out[3].split_times = Some(0)

(* The table as it stands before the group-wise fill. *)
PreBackfill(t) ==
    with_filled_splits(with_split_times(with_winner_time(with_time_seconds(t))))

(* The rearrangements of the table that move rows within their group only. *)
GroupPermutations ==
    {f \in [DOMAIN df -> DOMAIN df] :
        /\ \A i, j \in DOMAIN df : i # j => f[i] # f[j]
        /\ \A i \in DOMAIN df : SameGroup(i, f[i])}

(* C11: the filled split computed for a row before the group-wise fill     *)
(* does not depend on the order of the rows of its group: permuting the    *)
(* rows of each group leaves every row's value unchanged.                  *)
C11_PreBackfillOrderIndependent ==
    SplitsDone =>
        \A f \in GroupPermutations :
            LET permuted == [n \in DOMAIN df |-> df[f[n]]]
            IN \A n \in DOMAIN df :
                   PreBackfill(permuted)[n].filled_splits
                       = PreBackfill(df)[f[n]].filled_splits

(* A row's value before the group-wise fill, which alters no other column. *)
PreFilled(j) ==
    compute_filled_split(out[j].split_times, out[j].status, out[j].finish_position)

(* The rows of i's group that hold a value before the fill. *)
FilledBefore(i) == {j \in GroupOf(i) : ~IsNull(PreFilled(j))}

Preceding(i) == {j \in FilledBefore(i) : j < i}

Following(i) == {j \in FilledBefore(i) : j > i}

(* C12: in the group-wise fill a row that is still null takes the value of *)
(* the nearest preceding non-null row of its group or, when none precedes  *)
(* it, of the nearest following one; no value comes from another group, a  *)
(* row that was not null is unchanged, and a group without any value stays *)
(* null.                                                                   *)
C12_FillFromNearestInGroup ==
    SplitsDone =>
        \A i \in DOMAIN out :
            out[i].filled_splits =
                IF i \in FilledBefore(i) THEN PreFilled(i)
                ELSE IF Preceding(i) # {}
                THEN PreFilled(CHOOSE j \in Preceding(i) : \A k \in Preceding(i) : k <= j)
                ELSE IF Following(i) # {}
                THEN PreFilled(CHOOSE j \in Following(i) : \A k \in Following(i) : j <= k)
                ELSE None

(* A null row between two rows of its group that hold different values:    *)
(* it takes the value of the row before it.                                *)
C12_Witness ==
    /\ SplitsDone
    /\ Len(df) = 3
    /\ SameGroup(1, 2) /\ SameGroup(2, 3)
    /\ PreFilled(1) = Some(2000) /\ IsNull(PreFilled(2)) /\ PreFilled(3) = Some(4000)
    /\ out[2].filled_splits = Some(2000)
    /\ out[1].filled_splits = Some(2000) /\ out[3].filled_splits = Some(4000)

(***************************************************************************)
(* clean_weather_text.  A text is the sequence of its characters, each a   *)
(* one-character string; the characters outside ASCII carry their names:   *)
(* "NBSP" is '\xa0', "ORDINAL" is the masculine ordinal indicator,         *)
(* "DEGREE" the degree sign, "CLOUD" and "UMBRELLA" the two pictographs,   *)
(* "ENDASH" the en-dash.  The argument is None, the float NaN, or a str.   *)
(***************************************************************************)
MaxFragments == 2

MicrosPerUnit == 1000000

NoneType == [type |-> "NoneType", s |-> <<>>]

NaN == [type |-> "float", s |-> <<>>]

Text(s) == [type |-> "str", s |-> s]

replacements_keeping_angle ==
    <<<<<<"NBSP">>, <<" ">>>>,
      <<<<"ORDINAL">>, <<"DEGREE">>>>,
      <<<<"&", "a", "m", "p", ";">>, <<>>>>,
      <<<<",">>, <<" ">>>>,
      <<<<"/", ">">>, <<>>>>,
      <<<<"/", "p", ">">>, <<>>>>,
      <<<<"p", ">">>, <<>>>>,
      <<<<"/", "a", ">">>, <<>>>>,
      <<<<"<", "p", ">">>, <<>>>>,
      <<<<"<", "/", "p", ">">>, <<>>>>,
      <<<<"<", "b", "r", ">">>, <<" ">>>>,
      <<<<"<", "b", "r", "/", ">">>, <<" ">>>>,
      <<<<"CLOUD">>, <<"c", "l", "o", "u", "d", "s">>>>,
      <<<<"UMBRELLA">>, <<"r", "a", "i", "n">>>>,
      <<<<">">>, <<>>>>,
      <<<<"w", "e", "a", "t", "h", "e", "r", ":">>, <<>>>>,
      <<<<"/">>, <<" ">>>>,
      <<<<";">>, <<" ">>>>,
      <<<<":">>, <<" ">>>>,
      <<<<"(">>, <<" ">>>>,
      <<<<")">>, <<" ">>>>>>

replacements ==
    <<<<<<"NBSP">>, <<" ">>>>,
      <<<<"ORDINAL">>, <<"DEGREE">>>>,
      <<<<"&", "a", "m", "p", ";">>, <<>>>>,
      <<<<",">>, <<" ">>>>,
      <<<<"/", ">">>, <<>>>>,
      <<<<"/", "p", ">">>, <<>>>>,
      <<<<"p", ">">>, <<>>>>,
      <<<<"/", "a", ">">>, <<>>>>,
      <<<<"<", "p", ">">>, <<>>>>,
      <<<<"<", "/", "p", ">">>, <<>>>>,
      <<<<"<", "b", "r", ">">>, <<" ">>>>,
      <<<<"<", "b", "r", "/", ">">>, <<" ">>>>,
      <<<<"CLOUD">>, <<"c", "l", "o", "u", "d", "s">>>>,
      <<<<"UMBRELLA">>, <<"r", "a", "i", "n">>>>,
      <<<<"<">>, <<>>>>,
      <<<<">">>, <<>>>>,
      <<<<"w", "e", "a", "t", "h", "e", "r", ":">>, <<>>>>,
      <<<<"/">>, <<" ">>>>,
      <<<<";">>, <<" ">>>>,
      <<<<":">>, <<" ">>>>,
      <<<<"(">>, <<" ">>>>,
      <<<<")">>, <<" ">>>>>>

spacing_fixes ==
    <<<<<<"d", "r", "y", "o", "v", "e", "r", "c", "a", "s", "t">>,
        <<"d", "r", "y", " ", "o", "v", "e", "r", "c", "a", "s", "t">>>>,
      <<<<"d", "r", "y", "c", "l", "o", "u", "d", "e", "d">>,
        <<"d", "r", "y", " ", "c", "l", "o", "u", "d", "e", "d">>>>,
      <<<<"d", "r", "y", "s", "u", "n", "n", "y">>,
        <<"d", "r", "y", " ", "s", "u", "n", "n", "y">>>>,
      <<<<"d", "r", "y", "c", "l", "e", "a", "r">>,
        <<"d", "r", "y", " ", "c", "l", "e", "a", "r">>>>,
      <<<<"c", "l", "e", "a", "r", "2", "6", "DEGREE", "c">>,
        <<"c", "l", "e", "a", "r", " ", "2", "6", "DEGREE", "c">>>>,
      <<<<"o", "v", "e", "r", "c", "a", "s", "t", "2", "2", "DEGREE", "c">>,
        <<"o", "v", "e", "r", "c", "a", "s", "t", " ", "2", "2", "DEGREE", "c">>>>,
      <<<<"s", "u", "n", "n", "y">>, <<"s", "u", "n", "n", "y", " ">>>>,
      <<<<"t", "e", "m", "p", "e", "r", "a", "t", "u", "r", "e">>,
        <<"t", "e", "m", "p", "e", "r", "a", "t", "u", "r", "e", " ">>>>,
      <<<<"c", "l", "o", "u", "d", "y">>,
        <<"c", "l", "o", "u", "d", "y", " ">>>>,
      <<<<"c", "l", "e", "a", "r">>, <<"c", "l", "e", "a", "r", " ">>>>,
      <<<<"l", "a", "t", "e", "r">>, <<"l", "a", "t", "e", "r", " ">>>>,
      <<<<"d", "r", "y">>, <<"d", "r", "y", " ">>>>,
      <<<<"t", "i", "m", "e", "s">>, <<"t", "i", "m", "e", "s", " ">>>>>>

Fragments ==
    {<<"<">>, <<">">>, <<",">>, <<";">>, <<":">>, <<"(">>, <<")">>,
     <<"/">>, <<"NBSP">>, <<" ">>, <<"-">>, <<"ENDASH">>, <<"1">>, <<"2">>,
     <<"p">>, <<"s">>, <<"[">>, <<"]">>, <<"&", "a", "m", "p", ";">>,
     <<"b", "r">>, <<" ", "t", "o", " ">>, <<"i", "n", "g">>,
     <<"d", "r", "y">>, <<"S", "u", "n", "n", "y">>,
     <<"W", "e", "a", "t", "h", "e", "r", ":">>,
     <<"t", "e", "m", "p", "e", "r", "a", "t", "u", "r", "e">>,
     <<"N", "o", "n", "e">>, <<"n", "a", "n">>, <<"N", "a", "N">>,
     <<"ORDINAL">>, <<"CLOUD">>}

SpecExample ==
    <<"W", "e", "a", "t", "h", "e", "r", ":", " ", "S", "u", "n", "n", "y",
      ",", " ", "w", "a", "r", "m", " ", "2", "0", "-", "3", "0", "DEGREE",
      "c", "<", "b", "r", "/", ">">>

ChainedRange == <<"1", "0", "-", "2", "0", "-", "3", "0">>

SpacedRange == <<"2", "0", " ", "-", " ", "3", "0">>

SharedDigits == <<"1", "-", "2", " ", "1", "1", "-", "2", "2">>

DashThenTo == <<"1", "ENDASH", "2", " ", "t", "o", " ", "3">>

ToThenDash == <<"1", " ", "t", "o", " ", "2", "ENDASH", "3">>

HyphenThenTo == <<"1", "-", "2", " ", "t", "o", " ", "3">>

ToThenHyphen == <<"1", " ", "t", "o", " ", "2", "-", "3">>

HyphenThenDash == <<"1", "-", "2", "ENDASH", "3">>

DashThenHyphen == <<"1", "ENDASH", "2", "-", "3">>

LowerNone == <<"n", "o", "n", "e">>

UpperNone == <<"N", "O", "N", "E">>

RogueEndings ==
    <<"T", "e", "m", "p", "e", "r", "a", "t", "u", "r", "e", "s", " ", "r",
      "a", "i", "n", " ", "i", "n", "g", ".", " ", "[", "1", "2", "]">>

PluralAtEnd == <<"m", "i", "l", "d", " ", "t", "e", "m", "p", "e", "r", "a", "t", "u", "r", "e", "s">>

PluralBeforeStop ==
    <<"T", "e", "m", "p", "e", "r", "a", "t", "u", "r", "e", "s", ".", " ", "d", "r", "y">>

PluralBeforeComma == <<"t", "e", "m", "p", "e", "r", "a", "t", "u", "r", "e", "s", ",", " ", "d", "r", "y">>

Examples ==
    {SpecExample, ChainedRange, SpacedRange, SharedDigits, DashThenTo,
     ToThenDash, HyphenThenTo, ToThenHyphen, HyphenThenDash,
     DashThenHyphen, LowerNone, UpperNone, RogueEndings,
     PluralAtEnd, PluralBeforeStop, PluralBeforeComma}

RECURSIVE Flatten(_)
Flatten(fs) == IF fs = <<>> THEN <<>> ELSE Head(fs) \o Flatten(Tail(fs))

Upper ==
    <<"A", "B", "C", "D", "E", "F", "G", "H", "I", "J", "K", "L", "M",
      "N", "O", "P", "Q", "R", "S", "T", "U", "V", "W", "X", "Y", "Z">>

Lower ==
    <<"a", "b", "c", "d", "e", "f", "g", "h", "i", "j", "k", "l", "m",
      "n", "o", "p", "q", "r", "s", "t", "u", "v", "w", "x", "y", "z">>

(* str.lower() *)
lower(text) ==
    [i \in DOMAIN text |->
        IF \E n \in DOMAIN Upper : Upper[n] = text[i]
        THEN Lower[CHOOSE n \in DOMAIN Upper : Upper[n] = text[i]]
        ELSE text[i]]

StartsWith(text, i, old) ==
    /\ i + Len(old) - 1 <= Len(text)
    /\ \A n \in DOMAIN old : text[i + n - 1] = old[n]

(* str.replace(old, new): the occurrences of old from left to right, none  *)
(* overlapping another.                                                    *)
RECURSIVE ReplaceFrom(_, _, _, _)
ReplaceFrom(text, i, old, new) ==
    IF i > Len(text) THEN <<>>
    ELSE IF StartsWith(text, i, old)
    THEN new \o ReplaceFrom(text, i + Len(old), old, new)
    ELSE <<text[i]>> \o ReplaceFrom(text, i + 1, old, new)

Replace(text, old, new) == ReplaceFrom(text, 1, old, new)

(* for old, new in pairs: text = text.replace(old, new); nothing is left   *)
(* to replace in an empty text.                                            *)
RECURSIVE ReplaceAll(_, _)
ReplaceAll(text, pairs) ==
    IF pairs = <<>> \/ text = <<>> THEN text
    ELSE ReplaceAll(Replace(text, Head(pairs)[1], Head(pairs)[2]), Tail(pairs))

Whitespace == {" ", "\t", "\n", "NBSP"}

(* The end of the longest run of characters of a class that starts at i.   *)
RECURSIVE RunEnd(_, _, _)
RunEnd(text, i, class) ==
    IF i <= Len(text) /\ text[i] \in class THEN RunEnd(text, i + 1, class) ELSE i

DigitsEnd(text, i) == RunEnd(text, i, DOMAIN DigitValue)

SpacesEnd(text, i) == RunEnd(text, i, Whitespace)

(* re.sub(r"\[\d+\]", "", text) *)
RECURSIVE CitationsFrom(_, _)
CitationsFrom(text, i) ==
    IF i > Len(text) THEN <<>>
    ELSE LET e == DigitsEnd(text, i + 1)
         IN IF text[i] = "[" /\ e > i + 1 /\ e <= Len(text) /\ text[e] = "]"
            THEN CitationsFrom(text, e + 1)
            ELSE <<text[i]>> \o CitationsFrom(text, i + 1)

remove_citations(text) == CitationsFrom(text, 1)

(* The number pattern, digits with an optional point and further digits,   *)
(* from i: the place after the number, or 0 when none starts at i.  What   *)
(* may follow a number in the three patterns is never a digit or a point,  *)
(* so the longest number is the only one that can match.                   *)
NumberEnd(text, i) ==
    LET a == DigitsEnd(text, i)
    IN IF a = i THEN 0
       ELSE DigitsEnd(text, IF a <= Len(text) /\ text[a] = "." THEN a + 1 ELSE a)

(* The separator of each pattern from i: the place after it, or 0.         *)
SeparatorEnd(text, i, kind) ==
    CASE kind = "hyphen" ->
            LET s == SpacesEnd(text, i)
            IN IF s <= Len(text) /\ text[s] = "-" THEN SpacesEnd(text, s + 1) ELSE 0
      [] kind = "to" ->
            LET s == SpacesEnd(text, i)
                e == SpacesEnd(text, s + 2)
            IN IF s > i /\ StartsWith(text, s, <<"t", "o">>) /\ e > s + 2 THEN e ELSE 0
      [] kind = "endash" ->
            IF i <= Len(text) /\ text[i] = "ENDASH" THEN i + 1 ELSE 0

(* A match of number, separator, number that starts at i, with its groups. *)
RangeAt(text, i, kind) ==
    LET e1 == NumberEnd(text, i)
        s == IF e1 = 0 THEN 0 ELSE SeparatorEnd(text, e1, kind)
        e2 == IF s = 0 THEN 0 ELSE NumberEnd(text, s)
    IN IF e2 = 0 THEN [found |-> FALSE]
       ELSE [found |-> TRUE, first |-> SubSeq(text, i, e1 - 1),
             second |-> SubSeq(text, s, e2 - 1), end |-> e2]

(* re.findall(pattern, text): the pairs of groups, scanning from the left  *)
(* and resuming after each match.                                          *)
RECURSIVE findall(_, _, _)
findall(text, i, kind) ==
    IF i > Len(text) THEN <<>>
    ELSE LET m == RangeAt(text, i, kind)
         IN IF m.found THEN <<<<m.first, m.second>>>> \o findall(text, m.end, kind)
            ELSE findall(text, i + 1, kind)

(* float(match[k]): whole units and millionths. *)
float(tok) ==
    LET a == DigitsEnd(tok, 1)
        frac == SubSeq(tok, a + 1, Len(tok))
        pad == [n \in 1 .. 6 |-> IF n <= Len(frac) THEN frac[n] ELSE "0"]
    IN [whole |-> ToInt(SubSeq(tok, 1, a - 1)), micro |-> ToInt(pad)]

(* (val1 + val2) / 2 *)
average(v1, v2) ==
    LET micro == v1.micro + v2.micro
        whole == v1.whole + v2.whole + (micro \div MicrosPerUnit)
    IN [whole |-> whole \div 2,
        micro |-> ((whole % 2) * MicrosPerUnit + (micro % MicrosPerUnit)) \div 2]

Digits == <<"0", "1", "2", "3", "4", "5", "6", "7", "8", "9">>

RECURSIVE IntDigits(_)
IntDigits(n) ==
    IF n < 10 THEN <<Digits[n + 1]>>
    ELSE IntDigits(n \div 10) \o <<Digits[(n % 10) + 1]>>

RECURSIVE StripZeros(_)
StripZeros(ds) ==
    IF Len(ds) > 1 /\ ds[Len(ds)] = "0" THEN StripZeros(SubSeq(ds, 1, Len(ds) - 1))
    ELSE ds

(* str(avg): the shortest decimal that gives the float back, with at least *)
(* one digit after the point.                                              *)
str(v) ==
    LET six == IntDigits(MicrosPerUnit + v.micro)
    IN IntDigits(v.whole) \o <<".">> \o StripZeros(SubSeq(six, 2, 7))

Literal(kind) ==
    CASE kind = "hyphen" -> <<"-">>
      [] kind = "to" -> <<" ", "t", "o", " ">>
      [] kind = "endash" -> <<"ENDASH">>

(* for match in matches:                                                   *)
(*     text = text.replace(f"{match[0]}<sep>{match[1]}", str(avg))         *)
RECURSIVE ReplaceMatches(_, _, _)
ReplaceMatches(text, matches, kind) ==
    IF matches = <<>> THEN text
    ELSE LET m == Head(matches)
         IN ReplaceMatches(
                Replace(text, m[1] \o Literal(kind) \o m[2],
                        str(average(float(m[1]), float(m[2])))),
                Tail(matches), kind)

normalize_ranges_of(text, kind) == ReplaceMatches(text, findall(text, 1, kind), kind)

(* Mutant: the en-dash ranges are handled before the " to " ranges. *)
normalize_ranges_dash_before_to(text) ==
    normalize_ranges_of(normalize_ranges_of(normalize_ranges_of(text, "hyphen"),
                                            "endash"), "to")

(* _normalize_temperature_ranges(text) *)
normalize_temperature_ranges(text) ==
    normalize_ranges_of(normalize_ranges_of(normalize_ranges_of(text, "hyphen"),
                                            "to"), "endash")

Temperature == <<"t", "e", "m", "p", "e", "r", "a", "t", "u", "r", "e">>

(* re.sub(r"temperature\s+s\s", "temperatures ", text) *)
RECURSIVE TemperaturesFrom(_, _)
TemperaturesFrom(text, i) ==
    IF i > Len(text) THEN <<>>
    ELSE LET a == i + Len(Temperature)
             s == SpacesEnd(text, a)
         IN IF /\ StartsWith(text, i, Temperature)
               /\ s > a /\ s + 1 <= Len(text)
               /\ text[s] = "s" /\ text[s + 1] \in Whitespace
            THEN Temperature \o <<"s", " ">> \o TemperaturesFrom(text, s + 2)
            ELSE <<text[i]>> \o TemperaturesFrom(text, i + 1)

(* re.sub(r"\s+ing[\s\.\,\:\;]+", "ing ", text) *)
RECURSIVE IngFrom(_, _)
IngFrom(text, i) ==
    IF i > Len(text) THEN <<>>
    ELSE LET s == SpacesEnd(text, i)
             e == RunEnd(text, s + 3, Whitespace \cup {".", ",", ":", ";"})
         IN IF s > i /\ StartsWith(text, s, <<"i", "n", "g">>) /\ e > s + 3
            THEN <<"i", "n", "g", " ">> \o IngFrom(text, e)
            ELSE <<text[i]>> \o IngFrom(text, i + 1)

remove_rogue_endings(text) == IngFrom(TemperaturesFrom(text, 1), 1)

RECURSIVE WordEnd(_, _)
WordEnd(text, i) ==
    IF i <= Len(text) /\ text[i] \notin Whitespace THEN WordEnd(text, i + 1) ELSE i

(* text.split() *)
RECURSIVE split(_, _)
split(text, i) ==
    LET s == SpacesEnd(text, i)
    IN IF s > Len(text) THEN <<>>
       ELSE <<SubSeq(text, s, WordEnd(text, s) - 1)>> \o split(text, WordEnd(text, s))

(* " ".join(words) *)
RECURSIVE join(_)
join(words) ==
    IF words = <<>> THEN <<>>
    ELSE IF Len(words) = 1 THEN Head(words)
    ELSE Head(words) \o <<" ">> \o join(Tail(words))

(* text.strip() *)
strip(text) ==
    LET inner == {i \in DOMAIN text : text[i] \notin Whitespace}
    IN IF inner = {} THEN <<>>
       ELSE SubSeq(text, CHOOSE i \in inner : \A j \in inner : i <= j,
                   CHOOSE i \in inner : \A j \in inner : j <= i)

Sentinels == {<<"N", "o", "n", "e">>, <<"n", "a", "n">>, <<>>}

(* clean_weather_text(weather) *)
clean_weather_text(weather) ==
    IF \/ weather.type = "NoneType"
       \/ weather.type = "str" /\ weather.s \in Sentinels
       \/ weather.type = "float"
    THEN <<>>
    ELSE strip(join(split(
             remove_rogue_endings(normalize_temperature_ranges(remove_citations(
                 ReplaceAll(ReplaceAll(lower(weather.s), replacements),
                            spacing_fixes)))), 1)))

InitWeather ==
    /\ df \in {NoneType, NaN}
                \cup {Text(Flatten(fs)) :
                        fs \in UNION {[1 .. k -> Fragments] : k \in 0 .. MaxFragments}}
                \cup {Text(x) : x \in Examples}
    /\ out = None
    /\ pc = "input"

CleanWeatherText ==
    /\ pc = "input"
    /\ out' = clean_weather_text(df)
    /\ pc' = "clean_weather_text"
    /\ UNCHANGED df

NormalizeTemperatureRanges ==
    /\ pc = "input"
    /\ df.type = "str"
    /\ out' = normalize_temperature_ranges(df.s)
    /\ pc' = "normalize_temperature_ranges"
    /\ UNCHANGED df

NextWeather == CleanWeatherText \/ NormalizeTemperatureRanges

SpecWeather == InitWeather /\ [][NextWeather]_vars

Cleaned == pc = "clean_weather_text"

Normalized == pc = "normalize_temperature_ranges"

(* C13: cleaning is idempotent: cleaning a cleaned text gives it back.     *)
C13_CleanIsIdempotent ==
    Cleaned => clean_weather_text(Text(out)) = out

(* C14: null, the empty string, and every text whose lower-cased form is   *)
(* "none" or "nan" give the empty string.                                  *)
C14_SentinelOnLowerCasedText ==
    (Cleaned /\ (\/ df.type # "str"
                 \/ lower(df.s) \in {<<>>, <<"n", "o", "n", "e">>, <<"n", "a", "n">>}))
        => out = <<>>

Forbidden == {"<", ">", ",", ";", ":", "(", ")", "/", "NBSP"}

(* C15: the cleaned text holds none of '<', '>', ',', ';', ':', '(', ')',  *)
(* '/' and no non-breaking space, neither starts nor ends with whitespace, *)
(* and has no two whitespace characters in a row.                          *)
C15_CleanedTextIsTidy ==
    Cleaned =>
        /\ \A i \in DOMAIN out : out[i] \notin Forbidden
        /\ out # <<>> => out[1] \notin Whitespace /\ out[Len(out)] \notin Whitespace
        /\ \A i \in 1 .. Len(out) - 1 :
               ~(out[i] \in Whitespace /\ out[i + 1] \in Whitespace)

(* The spec's example: the markup, the comma and the colon are gone and    *)
(* the range 20-30 reads 25.0.                                             *)
C15_Witness ==
    /\ Cleaned
    /\ df = Text(SpecExample)
    /\ out = <<"s", "u", "n", "n", "y", " ", "w", "a", "r", "m", " ",
               "2", "5", ".", "0", "DEGREE", "c", "b", "r">>

(* Every matched occurrence replaced by the average of its own numbers,    *)
(* the text around the occurrences kept as it is.                          *)
RECURSIVE SubstituteFrom(_, _, _)
SubstituteFrom(text, i, kind) ==
    IF i > Len(text) THEN <<>>
    ELSE LET m == RangeAt(text, i, kind)
         IN IF m.found
            THEN str(average(float(m.first), float(m.second)))
                     \o SubstituteFrom(text, m.end, kind)
            ELSE <<text[i]>> \o SubstituteFrom(text, i + 1, kind)

Substitute(text, kind) == SubstituteFrom(text, 1, kind)

(* C16: range normalization replaces every occurrence matched by a range   *)
(* pattern (number, separator, number) by the average of that occurrence's *)
(* own two numbers and changes no text outside the matched occurrences.    *)
C16_EachMatchReplacedByItsAverage ==
    Normalized =>
        out = Substitute(Substitute(Substitute(df.s, "hyphen"), "to"), "endash")

Numerals == {<<"1">>, <<"2">>, <<"3">>}

(* The text a sep1 b sep2 c is rewritten in the order of the kinds: the    *)
(* range of the earlier kind is averaged first, the result with the third  *)
(* number next.                                                            *)
RewrittenInOrder(order) ==
    \A a, b, c \in Numerals :
        \A k1, k2 \in DOMAIN order :
            (k1 # k2 /\ df.s = a \o Literal(order[k1]) \o b \o Literal(order[k2]) \o c)
            => out = str(IF k1 < k2
                         THEN average(average(float(a), float(b)), float(c))
                         ELSE average(float(a), average(float(b), float(c))))

(* C17 as stated: the three separator kinds are processed in the order     *)
(* hyphen, en-dash, " to ".                                                *)
C17_HyphenDashTo ==
    Normalized => RewrittenInOrder(<<"hyphen", "endash", "to">>)

(* C17: the three separator kinds are processed in the order hyphen,       *)
(* " to ", en-dash; a text holding ranges of two kinds is rewritten in     *)
(* that order.                                                             *)
C17_HyphenToDash ==
    Normalized => RewrittenInOrder(<<"hyphen", "to", "endash">>)

(* "1(en-dash)2 to 3": 2 to 3 becomes 2.5 first, then 1 and 2.5 give 1.75. *)
C17_Witness ==
    /\ Normalized
    /\ df = Text(DashThenTo)
    /\ out = <<"1", ".", "7", "5">>

(***************************************************************************)
(* parse_qualifying_time.  The argument is None, the float NaN, or a str;  *)
(* the result is None or a float, held as whole seconds and millionths.    *)
(***************************************************************************)
MaxTokens == 4

SecondsPerMinute == 60

TimeTokens ==
    {<<"1">>, <<"0", "5">>, <<":">>, <<".">>, <<" ">>, <<"-">>, <<"x">>,
     <<"n", "a", "n">>}

DocExample == <<"1", ":", "2", "3", ".", "4", "5", "6">>

EdgeExample == <<"0", ":", "5", "9", ".", "9", "9", "9">>

PaddedExample == <<" ", "1", ":", "2", "3", ".", "4", "5", "6", " ">>

TwoPoints == <<"1", ":", "2", "3", ".", "4", ".", "5">>

BarePoint == <<"1", ":", "2", "3", ".">>

Invalid == <<"i", "n", "v", "a", "l", "i", "d">>

TwoColons == <<"1", ":", "2", "3", ":", "4", "5">>

TimeExamples ==
    {DocExample, EdgeExample, PaddedExample, TwoPoints, BarePoint, Invalid,
     TwoColons}

(* text.split(sep), sep a single character *)
RECURSIVE SplitOn(_, _)
SplitOn(text, sep) ==
    IF sep \notin Range(text) THEN <<text>>
    ELSE LET i == CHOOSE n \in DOMAIN text :
                      text[n] = sep /\ \A k \in 1 .. n - 1 : text[k] # sep
         IN <<SubSeq(text, 1, i - 1)>> \o SplitOn(SubSeq(text, i + 1, Len(text)), sep)

(* The digits of an integer literal: whitespace around it and one sign     *)
(* before it are allowed.                                                  *)
Unsigned(part) ==
    LET t == strip(part)
    IN IF t # <<>> /\ t[1] \in {"-", "+"} THEN Tail(t) ELSE t

(* int(part) raises ValueError *)
int_raises(part) == ~IsDigit(Unsigned(part))

(* int(part) *)
int(part) ==
    IF strip(part)[1] = "-" THEN 0 - ToInt(Unsigned(part)) ELSE ToInt(Unsigned(part))

(* float(f"0.{frac}") raises ValueError: after "0." only digits may come. *)
fraction_raises(frac) == \E i \in DOMAIN frac : frac[i] \notin DOMAIN DigitValue

(* seconds and milliseconds of parts[1], or None where int or float raises *)
parse_seconds(part) ==
    IF "." \in Range(part)
    THEN LET seconds_parts == SplitOn(part, ".")
         IN IF int_raises(seconds_parts[1]) \/ fraction_raises(seconds_parts[2])
            THEN None
            ELSE Some([whole |-> int(seconds_parts[1]),
                       micro |-> float(<<"0", ".">> \o seconds_parts[2]).micro])
    ELSE IF int_raises(part) THEN None
    ELSE Some([whole |-> int(part), micro |-> 0])

(* parse_qualifying_time(time_str) *)
parse_qualifying_time(time_str) ==
    IF \/ time_str.type = "NoneType"
       \/ time_str.type = "str" /\ time_str.s = <<>>
       \/ time_str.type = "float"
       \/ time_str.type = "str" /\ time_str.s = <<"n", "a", "n">>
    THEN None
    ELSE LET text == strip(time_str.s)
             parts == SplitOn(text, ":")
         IN IF ":" \notin Range(text) THEN None
            ELSE IF Len(parts) # 2 THEN None
            ELSE IF int_raises(parts[1]) \/ IsNull(parse_seconds(parts[2])) THEN None
            ELSE Some([whole |-> int(parts[1]) * SecondsPerMinute
                                     + Val(parse_seconds(parts[2])).whole,
                       micro |-> Val(parse_seconds(parts[2])).micro])

InitParse ==
    /\ df \in {NoneType, NaN}
                \cup {Text(Flatten(ts)) :
                        ts \in UNION {[1 .. k -> TimeTokens] : k \in 0 .. MaxTokens}}
                \cup {Text(x) : x \in TimeExamples}
    /\ out = None
    /\ pc = "input"

ParseQualifyingTime ==
    /\ pc = "input"
    /\ out' = parse_qualifying_time(df)
    /\ pc' = "parse_qualifying_time"
    /\ UNCHANGED df

NextParse == ParseQualifyingTime

SpecParse == InitParse /\ [][NextParse]_vars

Parsed == pc = "parse_qualifying_time"

(* A numeric part: digits, or nothing else than digits after a sign.       *)
Numeric(part) == IsDigit(Unsigned(part))

(* The text after the first point of the seconds part. *)
FractionOf(part) ==
    LET i == CHOOSE n \in DOMAIN part : part[n] = "." /\ \A k \in 1 .. n - 1 : part[k] # "."
    IN SubSeq(part, i + 1, Len(part))

SecondOf(part) == IF "." \in Range(part) THEN SplitOn(part, ".")[1] ELSE part

(* The strings the statement sends to null. *)
MustBeNull(text) ==
    \/ text \in {<<>>, <<"n", "a", "n">>}
    \/ ":" \notin Range(text)
    \/ Len(SplitOn(strip(text), ":")) # 2
    \/ LET parts == SplitOn(strip(text), ":")
       IN \/ ~Numeric(parts[1])
          \/ ~Numeric(SecondOf(parts[2]))
          \/ "." \in Range(parts[2]) /\ ~IsDigit(FractionOf(parts[2]))

(* M:SS.mmm *)
WellFormed(text) ==
    /\ Len(text) = 8
    /\ text[2] = ":" /\ text[5] = "."
    /\ \A i \in {1, 3, 4, 6, 7, 8} : text[i] \in DOMAIN DigitValue

(* C18: parse_qualifying_time returns null for null, "", "nan", a string   *)
(* without a colon, one that splits on ':' into other than two parts, and  *)
(* one whose minute, second or fraction part is not numeric; for a         *)
(* well-formed "M:SS.mmm", surrounding whitespace ignored, it returns      *)
(* M*60 + SS + 0.mmm.                                                      *)
C18_ParseOrNull ==
    Parsed =>
        /\ (df.type # "str" \/ MustBeNull(df.s)) => out = None
        /\ (df.type = "str" /\ WellFormed(strip(df.s))) =>
               LET text == strip(df.s)
               IN out = Some([whole |-> ToInt(<<text[1]>>) * 60 + ToInt(SubSeq(text, 3, 4)),
                              micro |-> ToInt(SubSeq(text, 6, 8)) * 1000])

(***************************************************************************)
(* calculate_quali_best, calculate_quali_worst, calculate_quali_mean.  A   *)
(* session time is None or a float: NaN, or a number held in thousandths   *)
(* of a second.  The numbers are multiples of 6, so that the mean of one,  *)
(* two or three of them is a whole number of thousandths.                  *)
(***************************************************************************)
nan == [isnan |-> TRUE, v |-> 0]

Float(v) == [isnan |-> FALSE, v |-> v]

SessionTimes ==
    {None, Some(nan), Some(Float(0)), Some(Float(-81000)),
     Some(Float(81000)), Some(Float(81600)), Some(Float(82800))}

(* Mutant: a time of zero counts as valid. *)
times_with_zero(q1, q2, q3) ==
    Filter(<<q1, q2, q3>>, {t \in SessionTimes : ~IsNull(t) /\ Val(t).v >= 0 /\ ~Val(t).isnan})

(* [t for t in [q1, q2, q3] if t is not None and t > 0 and not np.isnan(t)] *)
times(q1, q2, q3) ==
    Filter(<<q1, q2, q3>>,
           {t \in SessionTimes : ~IsNull(t) /\ (~Val(t).isnan /\ Val(t).v > 0) /\ ~Val(t).isnan})

(* min(times) *)
min(ts) == CHOOSE t \in Range(ts) : \A u \in Range(ts) : Val(t).v <= Val(u).v

(* max(times) *)
max(ts) == CHOOSE t \in Range(ts) : \A u \in Range(ts) : Val(t).v >= Val(u).v

(* sum(times) *)
RECURSIVE sum(_)
sum(ts) == IF ts = <<>> THEN 0 ELSE Val(Head(ts)).v + sum(Tail(ts))

calculate_quali_best(q1, q2, q3) ==
    IF times(q1, q2, q3) # <<>> THEN min(times(q1, q2, q3)) ELSE None

calculate_quali_worst(q1, q2, q3) ==
    IF times(q1, q2, q3) # <<>> THEN max(times(q1, q2, q3)) ELSE None

calculate_quali_mean(q1, q2, q3) ==
    IF times(q1, q2, q3) # <<>>
    THEN Some(Float(sum(times(q1, q2, q3)) \div Len(times(q1, q2, q3))))
    ELSE None

InitQuali ==
    /\ df \in [q1 : SessionTimes, q2 : SessionTimes, q3 : SessionTimes]
    /\ out = None
    /\ pc = "input"

CalculateQualiBest ==
    /\ pc = "input"
    /\ out' = calculate_quali_best(df.q1, df.q2, df.q3)
    /\ pc' = "calculate_quali_best"
    /\ UNCHANGED df

CalculateQualiWorst ==
    /\ pc = "input"
    /\ out' = calculate_quali_worst(df.q1, df.q2, df.q3)
    /\ pc' = "calculate_quali_worst"
    /\ UNCHANGED df

CalculateQualiMean ==
    /\ pc = "input"
    /\ out' = calculate_quali_mean(df.q1, df.q2, df.q3)
    /\ pc' = "calculate_quali_mean"
    /\ UNCHANGED df

NextQuali == CalculateQualiBest \/ CalculateQualiWorst \/ CalculateQualiMean

SpecQuali == InitQuali /\ [][NextQuali]_vars

(* The sessions that count: not null, not NaN, above zero. *)
ValidSessions ==
    {k \in {"q1", "q2", "q3"} : ~IsNull(df[k]) /\ ~Val(df[k]).isnan /\ Val(df[k]).v > 0}

RECURSIVE Total(_)
Total(ks) ==
    IF ks = {} THEN 0
    ELSE LET k == CHOOSE x \in ks : TRUE IN Val(df[k]).v + Total(ks \ {k})

(* C19: best, worst and mean treat null and every non-positive value among *)
(* q1, q2, q3 as absent and return the minimum, the maximum and the        *)
(* arithmetic mean of the remaining values; each returns null exactly when *)
(* no valid value remains.                                                 *)
C19_BestWorstMeanOfValid ==
    pc \in {"calculate_quali_best", "calculate_quali_worst", "calculate_quali_mean"} =>
        /\ IsNull(out) <=> ValidSessions = {}
        /\ ~IsNull(out) =>
              /\ ~Val(out).isnan
              /\ pc = "calculate_quali_best" =>
                    /\ \E k \in ValidSessions : Val(df[k]).v = Val(out).v
                    /\ \A k \in ValidSessions : Val(out).v <= Val(df[k]).v
              /\ pc = "calculate_quali_worst" =>
                    /\ \E k \in ValidSessions : Val(df[k]).v = Val(out).v
                    /\ \A k \in ValidSessions : Val(out).v >= Val(df[k]).v
              /\ pc = "calculate_quali_mean" =>
                    Val(out).v * Cardinality(ValidSessions) = Total(ValidSessions)

(* The mean of 82.8 s and 81.0 s, the second session null and so absent.   *)
C19_Witness ==
    /\ pc = "calculate_quali_mean"
    /\ df.q1 = Some(Float(82800)) /\ IsNull(df.q2) /\ df.q3 = Some(Float(81000))
    /\ out = Some(Float(81900))

(***************************************************************************)
(* FeaturePipeline._fill_missing_values.  The table holds the season, one  *)
(* numerical column (grid), one categorical column (direction) and the     *)
(* weather; the other columns the method names are absent from it and are  *)
(* skipped by its "if col in df.columns".  The numbers are even, so that   *)
(* the median of an even count of them is a whole number.                  *)
(***************************************************************************)
MaxFeatureRows == 3

FeatureSeasons == {2022, 2023}

GridValues == {None, Some(2), Some(8)}

TextCells ==
    {[direction |-> None, weather |-> None],
     [direction |-> Some("clockwise"), weather |-> Some("dry")]}

FeatureRows ==
    {[season |-> s, grid |-> g, direction |-> c.direction, weather |-> c.weather] :
        s \in FeatureSeasons, g \in GridValues, c \in TextCells}

categorical_cols == <<"direction", "type", "locality", "country", "race_name">>

numerical_cols == <<"q_best", "q_worst", "q_mean", "length", "ageDuringRace", "grid">>

(* df.columns *)
columns(t) == DOMAIN t[1]

(* x.fillna(value); a NaN value fills nothing. *)
fillna(x, value) == [i \in DOMAIN x |-> IF IsNull(x[i]) THEN value ELSE x[i]]

(* Mutant: the lower of the two middle values for an even count. *)
median_low(x) ==
    LET labels == Filter(Index(x), {i \in DOMAIN x : ~IsNull(x[i])})
        sorted == ArgSortAsc(labels, [i \in DOMAIN x |-> IF IsNull(x[i]) THEN 0 ELSE Val(x[i])])
        n == Len(sorted)
    IN IF n = 0 THEN None ELSE x[sorted[(n + 1) \div 2]]

(* x.median(): NaN skipped; the middle value, or the average of the two    *)
(* middle values; NaN when no value is left.                               *)
median(x) ==
    LET labels == Filter(Index(x), {i \in DOMAIN x : ~IsNull(x[i])})
        sorted == ArgSortAsc(labels, [i \in DOMAIN x |-> IF IsNull(x[i]) THEN 0 ELSE Val(x[i])])
        n == Len(sorted)
    IN IF n = 0 THEN None
       ELSE IF n % 2 = 1 THEN x[sorted[(n + 1) \div 2]]
       ELSE Some((Val(x[sorted[n \div 2]]) + Val(x[sorted[(n \div 2) + 1]])) \div 2)

(* df.groupby("season")[col].transform(lambda x: x.fillna(x.median())) *)
fill_within_season(t, col) ==
    [i \in DOMAIN t |->
        LET labels == Filter(Index(t), {j \in DOMAIN t : t[j].season = t[i].season})
            x == [n \in DOMAIN labels |-> t[labels[n]][col]]
        IN [t[i] EXCEPT ![col] = fillna(x, median(x))[PlaceIn(labels, i)]]]

(* df[col].fillna(df[col].median()) *)
fill_overall(t, col) ==
    LET x == [i \in DOMAIN t |-> t[i][col]]
    IN [i \in DOMAIN t |-> [t[i] EXCEPT ![col] = fillna(x, median(x))[i]]]

(* for col in numerical_cols: if col in df.columns: ... *)
RECURSIVE fill_numerical(_, _)
fill_numerical(t, cols) ==
    IF cols = <<>> THEN t
    ELSE IF Head(cols) \in columns(t)
    THEN fill_numerical(fill_overall(fill_within_season(t, Head(cols)), Head(cols)),
                        Tail(cols))
    ELSE fill_numerical(t, Tail(cols))

(* df[col] = df[col].fillna(value) *)
fill_column(t, col, value) ==
    [i \in DOMAIN t |-> [t[i] EXCEPT ![col] = IF IsNull(t[i][col]) THEN value ELSE t[i][col]]]

(* for col in categorical_cols: if col in df.columns: fillna("Unknown") *)
RECURSIVE fill_categorical(_, _)
fill_categorical(t, cols) ==
    IF cols = <<>> THEN t
    ELSE IF Head(cols) \in columns(t)
    THEN fill_categorical(fill_column(t, Head(cols), Some("Unknown")), Tail(cols))
    ELSE fill_categorical(t, Tail(cols))

(* if "weather" in df.columns: df["weather"] = df["weather"].fillna("") *)
fill_weather(t) ==
    IF "weather" \in columns(t) THEN fill_column(t, "weather", Some("")) ELSE t

(* _fill_missing_values(df) *)
fill_missing_values(t) ==
    fill_weather(fill_numerical(fill_categorical(t, categorical_cols), numerical_cols))

(* A season with grid 2, null, 8 and a season whose only grid is null. *)
SeasonWithGap ==
    <<[season |-> 2022, grid |-> Some(2), direction |-> Some("clockwise"),
       weather |-> Some("dry")],
      [season |-> 2022, grid |-> None, direction |-> None, weather |-> None],
      [season |-> 2022, grid |-> Some(8), direction |-> Some("clockwise"),
       weather |-> Some("dry")],
      [season |-> 2023, grid |-> None, direction |-> Some("clockwise"),
       weather |-> Some("dry")]>>

(* Two seasons that hold a grid value, one of them with a null beside it,  *)
(* and a third season whose only grid is null.                             *)
SeasonWithoutValue ==
    <<[season |-> 2021, grid |-> Some(2), direction |-> Some("clockwise"),
       weather |-> Some("dry")],
      [season |-> 2021, grid |-> None, direction |-> Some("clockwise"),
       weather |-> Some("dry")],
      [season |-> 2022, grid |-> Some(8), direction |-> Some("clockwise"),
       weather |-> Some("dry")],
      [season |-> 2023, grid |-> None, direction |-> Some("clockwise"),
       weather |-> Some("dry")]>>

InitFill ==
    /\ df \in Tables(FeatureRows, MaxFeatureRows) \cup {SeasonWithGap, SeasonWithoutValue}
    /\ out = None
    /\ pc = "input"

FillMissingValues ==
    /\ pc = "input"
    /\ out' = fill_missing_values(df)
    /\ pc' = "fill_missing_values"
    /\ UNCHANGED df

NextFill == FillMissingValues

SpecFill == InitFill /\ [][NextFill]_vars

Filled == pc = "fill_missing_values"

(* The rows of i's season that hold a grid value in the input. *)
KnownInSeason(i) ==
    {j \in DOMAIN df : df[j].season = df[i].season /\ ~IsNull(df[j].grid)}

(* The k-th smallest grid value of the rows S: fewer than k values lie     *)
(* below it and at least k do not lie above it.                            *)
KthSmallest(S, k) ==
    CHOOSE v \in {Val(df[j].grid) : j \in S} :
        /\ Cardinality({j \in S : Val(df[j].grid) < v}) < k
        /\ Cardinality({j \in S : Val(df[j].grid) <= v}) >= k

(* Twice the median of the grid values of the rows S. *)
TwiceMedian(S) ==
    LET n == Cardinality(S)
    IN KthSmallest(S, (n + 1) \div 2) + KthSmallest(S, (n + 2) \div 2)

(* C20: a null of a numerical column in a season that holds a value of it  *)
(* becomes the median of the season's non-null values, a non-null value is *)
(* unchanged, no null is left in a numerical column that holds a value;    *)
(* a null of a categorical column becomes "Unknown", a null weather "".    *)
C20_MissingValuesFilled ==
    Filled =>
        \A i \in DOMAIN out :
            /\ ~IsNull(df[i].grid) => out[i].grid = df[i].grid
            /\ (IsNull(df[i].grid) /\ KnownInSeason(i) # {})
               => /\ ~IsNull(out[i].grid)
                  /\ 2 * Val(out[i].grid) = TwiceMedian(KnownInSeason(i))
            /\ (\E j \in DOMAIN df : ~IsNull(df[j].grid)) => ~IsNull(out[i].grid)
            /\ IsNull(df[i].direction) => out[i].direction = Some("Unknown")
            /\ IsNull(df[i].weather) => out[i].weather = Some("")

(* One season with grid 2, null, 8 and another with a null only: the first *)
(* null becomes the season's median 5, the second the table's median.      *)
C20_Witness ==
    /\ Filled
    /\ df = SeasonWithGap
    /\ out[1].grid = Some(2) /\ out[3].grid = Some(8)
    /\ out[2].grid = Some(5) /\ out[4].grid = Some(5)
    /\ out[2].direction = Some("Unknown") /\ out[2].weather = Some("")

(* The rows that hold a grid value in the input. *)
KnownInTable == {j \in DOMAIN df : ~IsNull(df[j].grid)}

(* C21: the nulls of a season without any value of the column are filled   *)
(* with the median of the column's non-null input values over all seasons, *)
(* whatever the per-season step filled in.                                 *)
C21_FallbackIsMedianOfInput ==
    Filled =>
        \A i \in DOMAIN out :
            (IsNull(df[i].grid) /\ KnownInSeason(i) = {} /\ KnownInTable # {})
            => /\ ~IsNull(out[i].grid)
               /\ 2 * Val(out[i].grid) = TwiceMedian(KnownInTable)

(***************************************************************************)
(* FeaturePipeline.prepare_for_training(df, test_season).  The argument    *)
(* is the transformed table and the optional test season.                  *)
(***************************************************************************)
MaxTrainingRows == 3

DefaultTestSeason == 2020

TrainingSeasons == {2019, 2020, 2021}

TestSeasons == {None, Some(0), Some(2019), Some(2020), Some(2021)}

TrainingRows ==
    {[season |-> s, grid |-> g, name |-> "A", constructor |-> "X", circuit_id |-> "monza",
      finish_position |-> g, points |-> 0, status |-> "Finished", filled_splits |-> f] :
        s \in TrainingSeasons, g \in {1, 2}, f \in {0, 4000}}

(* The row without the named columns (pop / drop of the columns present). *)
drop(row, cols) == [c \in DOMAIN row \ cols |-> row[c]]

(* df[mask].copy() *)
select(t, mask) == LET labels == Filter(Index(t), mask) IN [n \in DOMAIN labels |-> t[labels[n]]]

(* train_mask = df["season"] < test_season *)
train_mask(t, test_season) == {i \in DOMAIN t : t[i].season < test_season}

(* test_mask = df["season"] == test_season *)
test_mask(t, test_season) == {i \in DOMAIN t : t[i].season = test_season}

(* test_season or settings.model.test_season: None and 0 are both falsy. *)
test_season_or_default(test_season) ==
    IF IsNull(test_season) \/ Val(test_season) = 0 THEN DefaultTestSeason
    ELSE Val(test_season)

NonFeatureColumns ==
    {"filled_splits", "finish_position", "points", "status", "name", "constructor",
     "circuit_id"}

prepare_for_training(t, test_season) ==
    LET season == test_season_or_default(test_season)
        train_df == select(t, train_mask(t, season))
        test_df == select(t, test_mask(t, season))
    IN [X_train |-> [n \in DOMAIN train_df |-> drop(train_df[n], NonFeatureColumns)],
        X_test |-> [n \in DOMAIN test_df |-> drop(test_df[n], NonFeatureColumns)],
        y_train |-> [n \in DOMAIN train_df |-> train_df[n].filled_splits],
        y_test |-> [n \in DOMAIN test_df |-> test_df[n].filled_splits]]

InitTraining ==
    /\ df \in [df : Tables(TrainingRows, MaxTrainingRows), test_season : TestSeasons]
    /\ out = None
    /\ pc = "input"

PrepareForTraining ==
    /\ pc = "input"
    /\ out' = prepare_for_training(df.df, df.test_season)
    /\ pc' = "prepare_for_training"
    /\ UNCHANGED df

NextTraining == PrepareForTraining

SpecTraining == InitTraining /\ [][NextTraining]_vars

Prepared == pc = "prepare_for_training"

(* The rows of the table whose season stands in the relation to the cutoff, *)
(* in the table's order.                                                    *)
RowsBefore(c) == Filter(Index(df.df), {i \in DOMAIN df.df : df.df[i].season < c})

RowsAt(c) == Filter(Index(df.df), {i \in DOMAIN df.df : df.df[i].season = c})

IsSplitOf(X, y, labels) ==
    /\ Len(X) = Len(labels) /\ Len(y) = Len(labels)
    /\ \A n \in DOMAIN labels :
          /\ y[n] = df.df[labels[n]].filled_splits
          /\ DOMAIN X[n] = DOMAIN df.df[labels[n]] \ NonFeatureColumns
          /\ \A c \in DOMAIN X[n] : X[n][c] = df.df[labels[n]][c]

(* C22: for every integer cutoff supplied, the training set holds exactly  *)
(* the rows with season < cutoff and the test set exactly the rows with    *)
(* season = cutoff, each y holds filled_splits of the rows of its X in the *)
(* same order, and X holds none of the target and identifier columns.      *)
C22_SplitBySuppliedCutoff ==
    (Prepared /\ ~IsNull(df.test_season)) =>
        /\ IsSplitOf(out.X_train, out.y_train, RowsBefore(Val(df.test_season)))
        /\ IsSplitOf(out.X_test, out.y_test, RowsAt(Val(df.test_season)))

(***************************************************************************)
(* models/xgboost_model.py: F1XGBoostModel.  The state is one model object *)
(* (df.model, with the fields _pipeline and _is_fitted) and the files that *)
(* save has written (df.disk); out is the outcome of the last call: the    *)
(* exception it raised ("none" when it returned) and the value returned.   *)
(* A data set is a feature table X and a target column y; the library's    *)
(* Pipeline.fit, predict and score raise ValueError on a table without     *)
(* rows and on X and y of different lengths.                               *)
(***************************************************************************)
MaxSamples == 2

FeatureTables == Tables({[grid |-> 1]}, MaxSamples)

Targets == Tables({0}, MaxSamples)

ModelPaths == {"model.pkl", "backup.pkl"}

Returned(value) == [raised |-> "none", value |-> value]

Raised(exception) == [raised |-> exception, value |-> None]

(* Pipeline([preprocessor, regressor]): a pipeline that has not been fitted *)
_create_pipeline == [fitted |-> FALSE, X |-> <<>>, y |-> <<>>]

(* sklearn validates the data before it fits, predicts or scores *)
data_raises(X, y) == Len(X) = 0 \/ Len(X) # Len(y)

(* F1XGBoostModel.fit: the new pipeline is stored before it is fitted, the *)
(* flag is set after; an exception of Pipeline.fit leaves in between.      *)
fit(self, X, y) ==
    LET created == [self EXCEPT !._pipeline = Some(_create_pipeline)]
    IN  IF data_raises(X, y)
        THEN [self |-> created, out |-> Raised("ValueError")]
        ELSE [self |-> [_pipeline |-> Some([fitted |-> TRUE, X |-> X, y |-> y]),
                        _is_fitted |-> TRUE],
              out |-> Returned("self")]

(* Pipeline.predict: one predicted gap per row *)
pipeline_predict(pipeline, X) ==
    IF ~pipeline.fitted THEN Raised("NotFittedError")
    ELSE IF Len(X) = 0 THEN Raised("ValueError")
    ELSE Returned([n \in DOMAIN X |-> "gap"])

(* Mutant: predict without the guard. *)
predict_unguarded(self, X) ==
    IF IsNull(self._pipeline) THEN Raised("AttributeError")
    ELSE pipeline_predict(Val(self._pipeline), X)

predict(self, X) ==
    IF ~self._is_fitted THEN Raised("ModelNotFittedError")
    ELSE pipeline_predict(Val(self._pipeline), X)

score(self, X, y) ==
    IF ~self._is_fitted THEN Raised("ModelNotFittedError")
    ELSE IF ~Val(self._pipeline).fitted THEN Raised("NotFittedError")
    ELSE IF data_raises(X, y) THEN Raised("ValueError")
    ELSE Returned("r2")

(* joblib.dump(self._pipeline, path) *)
save(self, path, disk) ==
    IF ~self._is_fitted THEN [disk |-> disk, out |-> Raised("ModelNotFittedError")]
    ELSE [disk |-> [disk EXCEPT ![path] = self._pipeline], out |-> Returned(None)]

(* F1XGBoostModel.load, a class method: a new instance holding the file's pipeline *)
load(self, path, disk) ==
    IF IsNull(disk[path]) THEN [self |-> self, out |-> Raised("ModelNotFoundError")]
    ELSE [self |-> [_pipeline |-> disk[path], _is_fitted |-> TRUE], out |-> Returned("instance")]

(* get_feature_names catches the AttributeError of get_feature_names_out   *)
(* and then reads transformers_, which an unfitted transformer lacks       *)
get_feature_importances(self) ==
    IF ~self._is_fitted THEN Raised("ModelNotFittedError")
    ELSE IF ~Val(self._pipeline).fitted THEN Raised("AttributeError")
    ELSE Returned("importances")

is_fitted(self) == self._is_fitted

(* F1XGBoostModel(): no pipeline, not fitted; nothing saved yet *)
InitModel ==
    /\ df = [model |-> [_pipeline |-> None, _is_fitted |-> FALSE],
             disk |-> [path \in ModelPaths |-> None]]
    /\ out = None
    /\ pc = "__init__"

Fit ==
    \E X \in FeatureTables, y \in Targets :
        LET call == fit(df.model, X, y)
        IN  /\ df' = [df EXCEPT !.model = call.self]
            /\ out' = call.out
            /\ pc' = "fit"

Predict ==
    \E X \in FeatureTables :
        /\ out' = predict(df.model, X)
        /\ pc' = "predict"
        /\ UNCHANGED df

Score ==
    \E X \in FeatureTables, y \in Targets :
        /\ out' = score(df.model, X, y)
        /\ pc' = "score"
        /\ UNCHANGED df

Save ==
    \E path \in ModelPaths :
        LET call == save(df.model, path, df.disk)
        IN  /\ df' = [df EXCEPT !.disk = call.disk]
            /\ out' = call.out
            /\ pc' = "save"

(* model = F1XGBoostModel.load(path): the caller's model becomes the loaded one *)
Load ==
    \E path \in ModelPaths :
        LET call == load(df.model, path, df.disk)
        IN  /\ df' = [df EXCEPT !.model = call.self]
            /\ out' = call.out
            /\ pc' = "load"

GetFeatureImportances ==
    /\ out' = get_feature_importances(df.model)
    /\ pc' = "get_feature_importances"
    /\ UNCHANGED df

NextModel == Fit \/ Predict \/ Score \/ Save \/ Load \/ GetFeatureImportances

SpecModel == InitModel /\ [][NextModel]_vars

(* the calls that are guarded by the flag *)
GuardedCall == pc \in {"predict", "score", "save", "get_feature_importances"}

(* the last call was a fit or a load that returned *)
CompletedFitOrLoad == pc \in {"fit", "load"} /\ out.raised = "none"

(* C23: a new model is not fitted; is_fitted becomes true only in a step   *)
(* that completes a fit or a load and is never reset; and in every state   *)
(* predict, score, save and get_feature_importances raise                  *)
(* ModelNotFittedError exactly when is_fitted is false.  So they raise it  *)
(* in every state reached without a completed fit or load and no longer    *)
(* raise it after one.                                                     *)
C23_NotFittedUntilFitOrLoad ==
    /\ ~is_fitted(df.model)
    /\ [][/\ (~is_fitted(df.model) /\ is_fitted(df.model')) => CompletedFitOrLoad'
          /\ CompletedFitOrLoad' => is_fitted(df.model')
          /\ is_fitted(df.model) => is_fitted(df.model')]_vars
    /\ [](GuardedCall => (out.raised = "ModelNotFittedError" <=> ~is_fitted(df.model)))

(* a guarded call on a fitted model returned *)
C23_Witness == GuardedCall /\ out.raised = "none" /\ is_fitted(df.model)

(* C28: whenever is_fitted is true, the pipeline the model holds has been  *)
(* fitted.                                                                 *)
C28_FittedFlagMeansFittedPipeline ==
    is_fitted(df.model) => (~IsNull(df.model._pipeline) /\ Val(df.model._pipeline).fitted)

(***************************************************************************)
(* features/age.py: calculate_age_at_race.  An argument is a str (Text), a *)
(* date, a datetime, or a value of another type (None, a float, an int).   *)
(***************************************************************************)
Date(year, month, day) == [type |-> "date", year |-> year, month |-> month, day |-> day]

DateTime(year, month, day, hour) ==
    [type |-> "datetime", year |-> year, month |-> month, day |-> day, hour |-> hour]

Number(n) == [type |-> "int", n |-> n]

FirstYear == 1900

LastYear == 2021

(* calendar.isleap *)
is_leap(year) == year % 4 = 0 /\ (year % 100 # 0 \/ year % 400 = 0)

(* datetime._days_in_month *)
days_in_month(year, month) ==
    IF month = 2 THEN (IF is_leap(year) THEN 29 ELSE 28)
    ELSE IF month \in {4, 6, 9, 11} THEN 30 ELSE 31

(* datetime._days_before_year: the days before January 1st of the year *)
days_before_year(year) ==
    LET y == year - 1
    IN (y * 365) + (y \div 4) - (y \div 100) + (y \div 400)

(* datetime._days_before_month *)
RECURSIVE days_before_month(_, _)
days_before_month(year, month) ==
    IF month = 1 THEN 0
    ELSE days_before_month(year, month - 1) + days_in_month(year, month - 1)

(* date.toordinal *)
toordinal(d) == days_before_year(d.year) + days_before_month(d.year, d.month) + d.day

(* date(year, month, day) raises ValueError *)
date_raises(year, month, day) ==
    year < 1 \/ month \notin 1 .. 12 \/ day \notin 1 .. days_in_month(year, month)

DigitAt(text, i) == i \in DOMAIN text /\ text[i] \in DOMAIN DigitValue

CharAt(text, i, chars) == i \in DOMAIN text /\ text[i] \in chars

(* The directive %m at position i: 1[0-2], 0[1-9] or [1-9], followed by    *)
(* the hyphen of the format; the length matched, 0 when none does.         *)
MonthLength(text, i) ==
    IF /\ \/ CharAt(text, i, {"1"}) /\ CharAt(text, i + 1, {"0", "1", "2"})
          \/ CharAt(text, i, {"0"}) /\ DigitAt(text, i + 1) /\ text[i + 1] # "0"
       /\ CharAt(text, i + 2, {"-"})
    THEN 2
    ELSE IF DigitAt(text, i) /\ text[i] # "0" /\ CharAt(text, i + 1, {"-"}) THEN 1
    ELSE 0

(* The directive %d at position i: 3[01], [12] and a digit, 0[1-9], [1-9]  *)
(* or a space and [1-9], the first alternative that matches.               *)
DayLength(text, i) ==
    IF \/ CharAt(text, i, {"3"}) /\ CharAt(text, i + 1, {"0", "1"})
       \/ CharAt(text, i, {"1", "2"}) /\ DigitAt(text, i + 1)
       \/ CharAt(text, i, {"0"}) /\ DigitAt(text, i + 1) /\ text[i + 1] # "0"
       \/ CharAt(text, i, {" "}) /\ DigitAt(text, i + 1) /\ text[i + 1] # "0"
    THEN 2
    ELSE IF DigitAt(text, i) /\ text[i] # "0" THEN 1
    ELSE 0

(* datetime.strptime(text, "%Y-%m-%d").date(): None where it raises        *)
(* ValueError (no match, unconverted data, or no such date).               *)
strptime(text) ==
    IF ~(\A i \in 1 .. 4 : DigitAt(text, i)) \/ ~CharAt(text, 5, {"-"}) THEN None
    ELSE LET m == MonthLength(text, 6)
             d == DayLength(text, 7 + m)
             year == ToInt(SubSeq(text, 1, 4))
             month == ToInt(SubSeq(text, 6, 5 + m))
             day == ToInt(strip(SubSeq(text, 7 + m, 6 + m + d)))
         IN IF m = 0 \/ d = 0 \/ Len(text) # 6 + m + d THEN None
            ELSE IF date_raises(year, month, day) THEN None
            ELSE Some(Date(year, month, day))

(* The isinstance chain of one argument: the date, or None where the       *)
(* function returns None.                                                  *)
as_date(value) ==
    IF value.type = "str" THEN strptime(value.s)
    ELSE IF value.type = "datetime" THEN Some(Date(value.year, value.month, value.day))
    ELSE IF value.type = "date" THEN Some(value)
    ELSE None

(* Mutant: the age is the birth date minus the race date. *)
calculate_age_reversed(date_of_birth, race_date) ==
    LET dob == as_date(date_of_birth)
        race == as_date(race_date)
    IN IF IsNull(dob) \/ IsNull(race) THEN None
       ELSE Some(toordinal(Val(dob)) - toordinal(Val(race)))

calculate_age_at_race(date_of_birth, race_date) ==
    LET dob == as_date(date_of_birth)
        race == as_date(race_date)
    IN IF IsNull(dob) \/ IsNull(race) THEN None
       ELSE Some(toordinal(Val(race)) - toordinal(Val(dob)))

YearTexts == {<<"1", "9", "0", "0">>, <<"2", "0", "0", "0">>, <<"2", "0", "2", "1">>,
              <<"0", "0", "0", "0">>, <<"2", "0", "2">>}

MonthTexts == {<<"0", "2">>, <<"2">>, <<"1", "2">>, <<"1", "3">>, <<"0", "0">>}

DayTexts == {<<"2", "9">>, <<"2", "8">>, <<"1">>, <<"3", "1">>, <<"3", "2">>, <<" ", "1">>}

DateTexts ==
    {y \o <<"-">> \o m \o <<"-">> \o d : y \in YearTexts, m \in MonthTexts, d \in DayTexts}
        \cup {<<>>,
              <<"2", "0", "2", "1", "/", "0", "2", "/", "2", "8">>,
              <<" ", "2", "0", "2", "1", "-", "0", "2", "-", "2", "8">>,
              <<"2", "0", "2", "1", "-", "0", "2", "-", "2", "8", " ">>,
              <<"2", "8", "-", "0", "2", "-", "2", "0", "2", "1">>}

Dates ==
    {Date(y, m, d) : y \in {FirstYear, 2000, 2020, LastYear}, m \in {1, 2, 3, 12},
                     d \in {1, 28, 29, 31}}

DateValues ==
    {Text(s) : s \in DateTexts}
        \cup {d \in Dates : ~date_raises(d.year, d.month, d.day)}
        \cup {DateTime(2020, m, d, 13) : m \in {2, 3}, d \in {1, 29}}
        \cup {NoneType, NaN, Number(20210228)}

InitAge ==
    /\ df \in [date_of_birth : DateValues, race_date : DateValues]
    /\ out = None
    /\ pc = "input"

CalculateAgeAtRace ==
    /\ pc = "input"
    /\ out' = calculate_age_at_race(df.date_of_birth, df.race_date)
    /\ pc' = "calculate_age_at_race"
    /\ UNCHANGED df

NextAge == CalculateAgeAtRace

SpecAge == InitAge /\ [][NextAge]_vars

Aged == pc = "calculate_age_at_race"

(* The calendar date a value denotes: a date, the date of a datetime, or   *)
(* the date written as four digits of year, month and day of one or two    *)
(* digits, separated by hyphens; None for anything else.                   *)
Denoted(value) ==
    IF value.type \in {"date", "datetime"} THEN Some(<<value.year, value.month, value.day>>)
    ELSE IF value.type # "str" THEN None
    ELSE LET parts == SplitOn(value.s, "-")
         IN IF /\ Len(parts) = 3
               /\ Len(parts[1]) = 4
               /\ Len(parts[2]) \in {1, 2}
               /\ Len(parts[3]) \in {1, 2}
               /\ \A k \in 1 .. 3 : IsDigit(strip(parts[k])) /\ parts[k][Len(parts[k])] # " "
               /\ LET ymd == [k \in 1 .. 3 |-> ToInt(strip(parts[k]))]
                  IN /\ ymd[1] >= 1
                     /\ ymd[2] \in 1 .. 12
                     /\ ymd[3] \in 1 .. days_in_month(ymd[1], ymd[2])
            THEN Some([k \in 1 .. 3 |-> ToInt(strip(parts[k]))])
            ELSE None

(* the days of the years from .. to - 1, negative when to precedes from *)
DaysOfYears(from, to) ==
    IF from <= to THEN (365 * (to - from)) + Cardinality({y \in from .. to - 1 : is_leap(y)})
    ELSE 0 - ((365 * (from - to)) + Cardinality({y \in to .. from - 1 : is_leap(y)}))

RECURSIVE DayOfYear(_, _, _)
DayOfYear(year, month, day) ==
    IF month = 1 THEN day ELSE days_in_month(year, month - 1) + DayOfYear(year, month - 1, day)

(* the days from FirstYear's January 1st to the date *)
DaysSince(ymd) == DaysOfYears(FirstYear, ymd[1]) + DayOfYear(ymd[1], ymd[2], ymd[3])

(* C24: for two values that denote calendar dates the result is the number *)
(* of days from the birth date to the race date, which is the negative of  *)
(* the result for the swapped arguments; for any other pair of values the  *)
(* result is null.                                                         *)
C24_AgeInDaysOrNull ==
    Aged =>
        LET dob == Denoted(df.date_of_birth)
            race == Denoted(df.race_date)
        IN IF IsNull(dob) \/ IsNull(race) THEN IsNull(out)
           ELSE /\ out = Some(DaysSince(Val(race)) - DaysSince(Val(dob)))
                /\ calculate_age_at_race(df.race_date, df.date_of_birth) = Some(0 - Val(out))

(* a race before the birth date, one of the two written as text *)
C24_Witness ==
    /\ Aged
    /\ ~IsNull(out)
    /\ Val(out) < 0
    /\ df.date_of_birth.type = "str"
    /\ df.race_date.type = "date"

(***************************************************************************)
(* features/pipeline.py: FeaturePipeline._process_qualifying, on a table   *)
(* with the columns q1, q2, q3.  In the raw variant a cell is a time text  *)
(* or None; in the parsed variant it is a float, NaN where the time is     *)
(* missing.  Times are in milliseconds.                                    *)
(***************************************************************************)
MaxQualiRows == 2

(* "1:21.000", "1:22.800", "0:00.000" and "-2:39.000", which parse_qualifying_time *)
(* reads as 81.0, 82.8, 0.0 and -81.0 seconds                                      *)
RawTimes ==
    {NoneType,
     Text(<<"1", ":", "2", "1", ".", "0", "0", "0">>),
     Text(<<"1", ":", "2", "2", ".", "8", "0", "0">>),
     Text(<<"0", ":", "0", "0", ".", "0", "0", "0">>),
     Text(<<"-", "2", ":", "3", "9", ".", "0", "0", "0">>)}

RawTables == Tables([q1 : RawTimes, q2 : RawTimes, q3 : RawTimes], MaxQualiRows)

(* the float that parse_qualifying_time returns, in milliseconds *)
seconds(parsed) ==
    IF IsNull(parsed) THEN None
    ELSE Some(Float((Val(parsed).whole * 1000) + (Val(parsed).micro \div 1000)))

(* a float column holds NaN where the value is None *)
as_float(value) == IF IsNull(value) THEN Some(nan) ELSE value

(* a cell of a float column *)
FloatCell(value) == [type |-> "float", s |-> <<>>, x |-> Val(as_float(value))]

(* the table with its times already parsed *)
ParsedTable(t) ==
    [n \in DOMAIN t |-> [k \in {"q1", "q2", "q3"} |->
                            FloatCell(seconds(parse_qualifying_time(t[n][k])))]]

process_qualifying_times(q1_str, q2_str, q3_str) ==
    LET q1 == seconds(parse_qualifying_time(q1_str))
        q2 == seconds(parse_qualifying_time(q2_str))
        q3 == seconds(parse_qualifying_time(q3_str))
    IN [q1 |-> q1, q2 |-> q2, q3 |-> q3,
        q_best |-> calculate_quali_best(q1, q2, q3),
        q_worst |-> calculate_quali_worst(q1, q2, q3),
        q_mean |-> calculate_quali_mean(q1, q2, q3)]

(* df["q1"].dropna().iloc[0], None where the column has no value *)
sample_q1(t) ==
    LET present == {n \in DOMAIN t :
                        /\ t[n].q1.type # "NoneType"
                        /\ ~(t[n].q1.type = "float" /\ t[n].q1.x.isnan)}
    IN IF present = {} THEN None
       ELSE Some(t[CHOOSE n \in present : \A m \in present : n <= m].q1)

(* isinstance(sample_q1, str) and ":" in sample_q1 *)
is_time_text(sample) ==
    ~IsNull(sample) /\ Val(sample).type = "str" /\ ":" \in Range(Val(sample).s)

(* the values of a row that DataFrame.min, max and mean(axis=1) keep: NaN  *)
(* and None are skipped                                                    *)
skipna(row) ==
    Filter(<<row.q1, row.q2, row.q3>>, {c \in SessionTimes : ~IsNull(c) /\ ~Val(c).isnan})

(* df[["q1", "q2", "q3"]].min(axis=1), .max(axis=1) and .mean(axis=1) of a *)
(* row of floats                                                           *)
row_aggregates(row) ==
    LET kept == skipna(row)
    IN [q1 |-> row.q1, q2 |-> row.q2, q3 |-> row.q3,
        q_best |-> IF kept = <<>> THEN Some(nan) ELSE min(kept),
        q_worst |-> IF kept = <<>> THEN Some(nan) ELSE max(kept),
        q_mean |-> IF kept = <<>> THEN Some(nan) ELSE Some(Float(sum(kept) \div Len(kept)))]

(* a cell that is a str *)
HasText(t) == \E n \in DOMAIN t : \E k \in {"q1", "q2", "q3"} : t[n][k].type = "str"

(* _process_qualifying.  Where the row-wise aggregates meet a column of    *)
(* str, pandas either raises TypeError or, with numeric_only, leaves the   *)
(* column out; which of the two depends on the version installed.          *)
_process_qualifying(t, numeric_only) ==
    IF is_time_text(sample_q1(t))
    THEN [raised |-> FALSE,
          df |-> [n \in DOMAIN t |-> process_qualifying_times(t[n].q1, t[n].q2, t[n].q3)]]
    ELSE IF HasText(t)
    THEN IF numeric_only
         THEN [raised |-> FALSE,
               df |-> [n \in DOMAIN t |->
                         [q1 |-> None, q2 |-> None, q3 |-> None,
                          q_best |-> Some(nan), q_worst |-> Some(nan), q_mean |-> Some(nan)]]]
         ELSE [raised |-> TRUE, df |-> <<>>]
    ELSE [raised |-> FALSE,
          df |-> [n \in DOMAIN t |->
                    row_aggregates([k \in {"q1", "q2", "q3"} |->
                        IF t[n][k].type = "float" THEN Some(t[n][k].x) ELSE Some(nan)])]]

InitAssembly ==
    /\ \E t \in RawTables :
          \/ df = [variant |-> "raw", times |-> t, df |-> t]
          \/ df = [variant |-> "parsed", times |-> t, df |-> ParsedTable(t)]
    /\ out = None
    /\ pc = "input"

ProcessQualifying ==
    /\ pc = "input"
    /\ \E numeric_only \in BOOLEAN : out' = _process_qualifying(df.df, numeric_only)
    /\ pc' = "_process_qualifying"
    /\ UNCHANGED df

NextAssembly == ProcessQualifying

SpecAssembly == InitAssembly /\ [][NextAssembly]_vars

Assembled == pc = "_process_qualifying"

(* null and NaN both stand for a missing value *)
SameValue(a, b) ==
    IF IsNull(a) \/ Val(a).isnan THEN IsNull(b) \/ Val(b).isnan
    ELSE ~IsNull(b) /\ ~Val(b).isnan /\ Val(a).v = Val(b).v

(* the times of row n, parsed *)
TimesOf(n) == [k \in {"q1", "q2", "q3"} |-> seconds(parse_qualifying_time(df.times[n][k]))]

(* C25: in both variants of the input, every row's q_best, q_worst and     *)
(* q_mean are the best, worst and mean of the row's times, with null and   *)
(* non-positive times absent.                                              *)
C25_AggregatesOfValidTimes ==
    Assembled =>
        /\ ~out.raised
        /\ \A n \in DOMAIN df.times :
              LET q == TimesOf(n)
              IN /\ SameValue(out.df[n].q_best, calculate_quali_best(q.q1, q.q2, q.q3))
                 /\ SameValue(out.df[n].q_worst, calculate_quali_worst(q.q1, q.q2, q.q3))
                 /\ SameValue(out.df[n].q_mean, calculate_quali_mean(q.q1, q.q2, q.q3))

(***************************************************************************)
(* postprocessing/positions.py: one null gap.                              *)
(***************************************************************************)
(* C27: when any row of the table has a null predicted gap the call raises *)
(* and returns no position for any row, whichever group the row is in.     *)
C27_AnyNullGapRaises ==
    (pc = "predictions_to_positions" /\ \E i \in DOMAIN df : IsNull(df[i].pred))
        => (out.raised /\ out.value = <<>>)

(* One null gap, in a race with another row whose gap is known, beside a   *)
(* race whose gaps are all known.                                          *)
C27_Witness ==
    /\ pc = "predictions_to_positions"
    /\ out.raised
    /\ Cardinality({i \in DOMAIN df : IsNull(df[i].pred)}) = 1
    /\ \E i \in DOMAIN df : IsNull(df[i].pred) /\ \E j \in RaceOf(i) : ~IsNull(df[j].pred)
    /\ \E i \in DOMAIN df : \A j \in RaceOf(i) : ~IsNull(df[j].pred)

(***************************************************************************)
(* features/weather.py: the plural "temperatures" through the spacing fix  *)
(* and _remove_rogue_endings.                                              *)
(***************************************************************************)
Contains(text, word) == \E i \in DOMAIN text : StartsWith(text, i, word)

Plural == <<"t", "e", "m", "p", "e", "r", "a", "t", "u", "r", "e", "s">>

SplitPlural == <<"t", "e", "m", "p", "e", "r", "a", "t", "u", "r", "e", " ", "s">>

(* C26: for every text that contains "temperatures", whatever its case,    *)
(* the cleaned text contains "temperatures" and does not contain           *)
(* "temperature s".                                                        *)
C26_PluralRestored ==
    (Cleaned /\ df.type = "str" /\ Contains(lower(df.s), Plural))
        => (Contains(out, Plural) /\ ~Contains(out, SplitPlural))

(***************************************************************************)
(* models/registry.py: ModelRegistry.  self holds the metadata in memory   *)
(* (_metadata: the registered versions with their path and creation time,  *)
(* and the active version), the registry.json last written to the models   *)
(* directory (None while the file does not exist) and the model files of   *)
(* that directory, named by their version.  Time is a count of seconds.    *)
(***************************************************************************)
MaxSaves == 3

Versions == {"v1", "v2"}

KeepValues == {0, 1, 2}

(* datetime.now().strftime("%Y%m%d_%H%M%S") *)
strftime(now) == "20240101_00000" \o ToString(now)

VersionArguments == {None} \cup {Some(v) : v \in Versions} \cup {Some(strftime(1))}

(* {"models": {}, "active": None} *)
EmptyMetadata == [models |-> <<>>, active |-> None]

(* _load_metadata *)
_load_metadata(registry_json) ==
    IF IsNull(registry_json) THEN EmptyMetadata ELSE Val(registry_json)

(* ModelRegistry(): the metadata is read from the models directory *)
ModelRegistry(registry_json, files) ==
    [_metadata |-> _load_metadata(registry_json), registry_json |-> registry_json, files |-> files]

(* _save_metadata *)
_save_metadata(self) == [self EXCEPT !.registry_json = Some(self._metadata)]

Registered(self) == DOMAIN self._metadata.models

save_model(self, model, version, set_active, now) ==
    LET name == IF IsNull(version) THEN strftime(now) ELSE Val(version)
        models == [v \in Registered(self) \cup {name} |->
                      IF v = name THEN [path |-> name, created_at |-> now]
                      ELSE self._metadata.models[v]]
    IN IF ~model._is_fitted
       THEN [self |-> self, out |-> Raised("ModelNotFittedError")]
       ELSE [self |-> _save_metadata(
                          [self EXCEPT !.files = @ \cup {name},
                                       !._metadata = [models |-> models,
                                                      active |-> IF set_active THEN Some(name)
                                                                 ELSE @.active]]),
             out |-> Returned(name)]

(* the version that load_model looks up: the active one by default *)
version_or_active(self, version) == IF IsNull(version) THEN self._metadata.active ELSE version

(* F1XGBoostModel.load(model_path) raises when the file does not exist *)
load_model(self, version) ==
    LET v == version_or_active(self, version)
    IN IF IsNull(v) THEN Raised("ModelNotFoundError")
       ELSE IF Val(v) \notin Registered(self) THEN Raised("ModelNotFoundError")
       ELSE IF self._metadata.models[Val(v)].path \notin self.files
            THEN Raised("ModelNotFoundError")
       ELSE Returned([loaded_from |-> self._metadata.models[Val(v)].path])

get_active_version(self) == self._metadata.active

set_active(self, version) ==
    IF version \notin Registered(self)
    THEN [self |-> self, out |-> Raised("ModelNotFoundError")]
    ELSE [self |-> _save_metadata([self EXCEPT !._metadata.active = Some(version)]),
          out |-> Returned(None)]

(* the versions, newest first (the creation times of one registry differ) *)
list_versions(self) ==
    LET models == self._metadata.models
        place(v) == 1 + Cardinality({u \in DOMAIN models :
                                        models[u].created_at > models[v].created_at})
    IN [i \in 1 .. Cardinality(DOMAIN models) |-> CHOOSE v \in DOMAIN models : place(v) = i]

get_model_info(self, version) ==
    IF version \notin Registered(self) THEN Raised("ModelNotFoundError")
    ELSE Returned([version |-> version,
                   is_active |-> self._metadata.active = Some(version),
                   created_at |-> self._metadata.models[version].created_at])

delete_version(self, version) ==
    IF version \notin Registered(self)
    THEN [self |-> self, out |-> Raised("ModelNotFoundError")]
    ELSE [self |-> _save_metadata(
                       [self EXCEPT !.files = @ \ {self._metadata.models[version].path},
                                    !._metadata =
                                        [models |-> [v \in Registered(self) \ {version} |->
                                                        self._metadata.models[v]],
                                         active |-> IF @.active = Some(version) THEN None
                                                    ELSE @.active]]),
          out |-> Returned(None)]

RECURSIVE delete_versions(_, _)
(* for version in to_delete: self.delete_version(version) *)
delete_versions(self, to_delete) ==
    IF to_delete = <<>> THEN self
    ELSE delete_versions(delete_version(self, Head(to_delete)).self, Tail(to_delete))

(* Mutant: the active version is deleted like any other old version. *)
cleanup_with_active(self, keep) ==
    LET versions == list_versions(self)
        to_delete == Filter(versions, {versions[i] : i \in {n \in DOMAIN versions : n - 1 >= keep}})
    IN [self |-> delete_versions(self, to_delete), out |-> Returned(to_delete)]

cleanup_old_versions(self, keep) ==
    LET versions == list_versions(self)
        active == self._metadata.active
        to_delete == Filter(versions, {versions[i] : i \in {n \in DOMAIN versions :
                                           n - 1 >= keep /\ Some(versions[n]) # active}})
    IN [self |-> delete_versions(self, to_delete), out |-> Returned(to_delete)]

Call(name, version, keep) == [call |-> name, version |-> version, keep |-> keep]

(* a new registry on an empty models directory *)
InitRegistry ==
    /\ df = [self |-> ModelRegistry(None, {}), now |-> 1]
    /\ out = None
    /\ pc = Call("__init__", None, 0)

SaveModel ==
    \E fitted \in BOOLEAN, version \in VersionArguments, active \in BOOLEAN :
        LET call == save_model(df.self, [_is_fitted |-> fitted], version, active, df.now)
        IN  /\ df.now <= MaxSaves
            /\ df' = [self |-> call.self, now |-> df.now + 1]
            /\ out' = call.out
            /\ pc' = Call("save_model", version, 0)

LoadModel ==
    \E version \in VersionArguments :
        /\ out' = load_model(df.self, version)
        /\ pc' = Call("load_model", version, 0)
        /\ UNCHANGED df

SetActive ==
    \E version \in VersionArguments \ {None} :
        LET call == set_active(df.self, Val(version))
        IN  /\ df' = [df EXCEPT !.self = call.self]
            /\ out' = call.out
            /\ pc' = Call("set_active", version, 0)

GetModelInfo ==
    \E version \in VersionArguments \ {None} :
        /\ out' = get_model_info(df.self, Val(version))
        /\ pc' = Call("get_model_info", version, 0)
        /\ UNCHANGED df

DeleteVersion ==
    \E version \in VersionArguments \ {None} :
        LET call == delete_version(df.self, Val(version))
        IN  /\ df' = [df EXCEPT !.self = call.self]
            /\ out' = call.out
            /\ pc' = Call("delete_version", version, 0)

CleanupOldVersions ==
    \E keep \in KeepValues :
        LET call == cleanup_old_versions(df.self, keep)
        IN  /\ df' = [df EXCEPT !.self = call.self]
            /\ out' = call.out
            /\ pc' = Call("cleanup_old_versions", None, keep)

NextRegistry ==
    SaveModel \/ LoadModel \/ SetActive \/ GetModelInfo \/ DeleteVersion \/ CleanupOldVersions

SpecRegistry == InitRegistry /\ [][NextRegistry]_vars

(* the active version is null or registered *)
ActiveIsRegistered ==
    IsNull(df.self._metadata.active) \/ Val(df.self._metadata.active) \in Registered(df.self)

(* the step calls one of the four lookups with a version that is not registered *)
UnregisteredLookup ==
    /\ pc'.call \in {"set_active", "delete_version", "get_model_info", "load_model"}
    /\ ~IsNull(pc'.version)
    /\ Val(pc'.version) \notin Registered(df.self)

(* the versions among the keep most recently created *)
MostRecent(self, keep) ==
    {v \in Registered(self) :
        Cardinality({u \in Registered(self) :
                        self._metadata.models[u].created_at
                            > self._metadata.models[v].created_at}) < keep}

(* a version with its metadata and its file *)
Kept(v) ==
    /\ v \in Registered(df.self')
    /\ df.self'._metadata.models[v] = df.self._metadata.models[v]
    /\ (v \in df.self.files) = (v \in df.self'.files)

(* C29: the active version is always null or registered; a set_active,     *)
(* delete_version, get_model_info or load_model of an unregistered version *)
(* raises ModelNotFoundError and leaves the registry as it was; and        *)
(* cleanup_old_versions(keep) keeps the active version and the keep most   *)
(* recently created versions.                                              *)
C29_RegistryConsistent ==
    /\ []ActiveIsRegistered
    /\ [][UnregisteredLookup => (out'.raised = "ModelNotFoundError" /\ df.self' = df.self)]_vars
    /\ [][pc'.call = "cleanup_old_versions" =>
            /\ df.self'._metadata.active = df.self._metadata.active
            /\ \A v \in MostRecent(df.self, pc'.keep) : Kept(v)
            /\ ~IsNull(df.self._metadata.active) => Kept(Val(df.self._metadata.active))]_vars

(* a cleanup with keep = 0 deleted versions and the active one remains *)
C29_Witness ==
    /\ pc.call = "cleanup_old_versions"
    /\ pc.keep = 0
    /\ out.value # <<>>
    /\ ~IsNull(df.self._metadata.active)
    /\ Registered(df.self) = {Val(df.self._metadata.active)}

(***************************************************************************)
(* api/app.py and api/routers.py: the application keeps the loaded model   *)
(* and its version in app.state; every request builds a ModelRegistry from *)
(* the models directory, which a training run (models/training.py) and the *)
(* file system change as well.                                             *)
(***************************************************************************)
RequestedVersions == {strftime(n) : n \in 1 .. MaxSaves} \cup Versions

(* lifespan, start-up: the active model is loaded; on any exception the    *)
(* application starts without a model                                      *)
lifespan(registry_json, files) ==
    LET registry == ModelRegistry(registry_json, files)
        loaded == load_model(registry, None)
    IN IF loaded.raised # "none" THEN [model |-> None, model_version |-> None]
       ELSE [model |-> Some(loaded.value), model_version |-> get_active_version(registry)]

(* activate_model: the new state of the models directory and of app.state, *)
(* and the response                                                        *)
activate_model(version, state) ==
    LET registry == ModelRegistry(state.registry_json, state.files)
        activated == set_active(registry, version)
        loaded == load_model(activated.self, Some(version))
    IN IF activated.out.raised # "none"
       THEN [state |-> state, status_code |-> 400]
       ELSE IF loaded.raised # "none"
       THEN [state |-> [state EXCEPT !.registry_json = activated.self.registry_json],
             status_code |-> 400]
       ELSE [state |-> [state EXCEPT !.registry_json = activated.self.registry_json,
                                     !.app = [model |-> Some(loaded.value),
                                              model_version |-> Some(version)]],
             status_code |-> 200]

(* the application started on an empty models directory *)
InitApi ==
    /\ df = [registry_json |-> None, files |-> {}, app |-> lifespan(None, {}), now |-> 1]
    /\ out = None
    /\ pc = Call("lifespan", None, 0)

(* the application is started again *)
Lifespan ==
    /\ df' = [df EXCEPT !.app = lifespan(df.registry_json, df.files)]
    /\ out' = None
    /\ pc' = Call("lifespan", None, 0)

ActivateModel ==
    \E version \in RequestedVersions :
        LET response == activate_model(version, df)
        IN  /\ df' = response.state
            /\ out' = [status_code |-> response.status_code]
            /\ pc' = Call("activate_model", Some(version), 0)

(* ModelTrainer.train: the trained model is saved as the active version *)
Train ==
    LET call == save_model(ModelRegistry(df.registry_json, df.files),
                           [_is_fitted |-> TRUE], None, TRUE, df.now)
    IN  /\ df.now <= MaxSaves
        /\ df' = [df EXCEPT !.registry_json = call.self.registry_json,
                            !.files = call.self.files,
                            !.now = @ + 1]
        /\ out' = call.out
        /\ pc' = Call("train", None, 0)

(* a model file disappears from the models directory *)
LoseModelFile ==
    \E version \in df.files :
        /\ df' = [df EXCEPT !.files = @ \ {version}]
        /\ out' = None
        /\ pc' = Call("unlink", Some(version), 0)

NextApi == Lifespan \/ ActivateModel \/ Train \/ LoseModelFile

SpecApi == InitApi /\ [][NextApi]_vars

(* the active version of the registry.json on disk *)
PersistedActive(state) == _load_metadata(state.registry_json).active

(* C30: an activate request that fails with HTTP 400 changes neither the   *)
(* persisted active version nor the application's model and model_version; *)
(* so when the application's model_version was the persisted active        *)
(* version before an activate request, it is after the request too.        *)
C30_ActivateAllOrNothing ==
    [][pc'.call = "activate_model" =>
          /\ out'.status_code = 400 =>
                /\ PersistedActive(df') = PersistedActive(df)
                /\ df'.app = df.app
          /\ df.app.model_version = PersistedActive(df) =>
                df'.app.model_version = PersistedActive(df')]_vars

====
